---- MODULE Spec2Model ----
(***************************************************************************)
(* r2epub: conversion of a ReSpec generated W3C document (or a collection  *)
(* of them) into an EPUB 3.2 container.                                    *)
(*                                                                         *)
(* The module models                                                       *)
(*   - process()             (src/src/lib/process.ts)   the single         *)
(*     document pipeline, with get_extra_resources and generate_epub;      *)
(*   - css.extract           (src/unnamed/part_003)     the CSS/logo       *)
(*     resolver;                                                           *)
(*   - fetch_type, fetch_resource (src/unnamed/part_000);                  *)
(*   - PackageWrapper        (src/dist/lib/home.js);                       *)
(*   - generate_book_data, create_epub (src/dist/clib/convert.js) the      *)
(*     collection pipeline.                                                *)
(*                                                                         *)
(* JavaScript runs one callback at a time: an action of the model is the   *)
(* code that runs between two awaits.  The numbered steps of process()     *)
(* are separate actions chained by pc; no other action of the same run is  *)
(* enabled between them.                                                   *)
(***************************************************************************)
EXTENDS Naturals, Sequences, FiniteSets, TLC

(***************************************************************************)
(* Values.  A JavaScript string is a TLA+ string; undefined and null are   *)
(* the two strings below, which no program string equals.  A string whose  *)
(* characters matter (the specStatus) is a sequence of one character       *)
(* strings.  An optional value is <<>> (undefined) or <<v>>.               *)
(***************************************************************************)
Undefined == "(undefined)"

Null == "(null)"

\* JavaScript truthiness of a string valued field.
Truthy(s) == s # Undefined /\ s # Null /\ s # ""

RECURSIVE Join(_)
\* The string made of the characters cs.
Join(cs) == IF cs = <<>> THEN "" ELSE Head(cs) \o Join(Tail(cs))

LowerChars ==
    <<"a","b","c","d","e","f","g","h","i","j","k","l","m",
      "n","o","p","q","r","s","t","u","v","w","x","y","z">>

UpperChars ==
    <<"A","B","C","D","E","F","G","H","I","J","K","L","M",
      "N","O","P","Q","R","S","T","U","V","W","X","Y","Z">>

toUpperCaseChar(c) ==
    IF \E i \in 1..Len(LowerChars) : LowerChars[i] = c
    THEN UpperChars[CHOOSE i \in 1..Len(LowerChars) : LowerChars[i] = c]
    ELSE c

\* String.prototype.toUpperCase, character by character.
toUpperCase(cs) == [i \in 1..Len(cs) |-> toUpperCaseChar(cs[i])]

\* A uniq that keeps the last occurrence of every value instead of the first.
uniq_keeping_last(s) ==
    LET keep == {i \in 1..Len(s) : \A j \in (i+1)..Len(s) : s[j] # s[i]}
        RECURSIVE pick(_)
        pick(i) == IF i > Len(s) THEN <<>>
                   ELSE IF i \in keep THEN <<s[i]>> \o pick(i+1)
                   ELSE pick(i+1)
    IN pick(1)

\* _.uniq: the first occurrence of every value, in order.
uniq(s) ==
    LET keep == {i \in 1..Len(s) : \A j \in 1..(i-1) : s[j] # s[i]}
        RECURSIVE pick(_)
        pick(i) == IF i > Len(s) THEN <<>>
                   ELSE IF i \in keep THEN <<s[i]>> \o pick(i+1)
                   ELSE pick(i+1)
    IN pick(1)

\* Array.prototype.filter with the predicate given as the set of kept values.
RECURSIVE SelectIdx(_, _, _)
SelectIdx(s, keep, i) ==
    IF i > Len(s) THEN <<>>
    ELSE IF i \in keep THEN <<s[i]>> \o SelectIdx(s, keep, i+1)
    ELSE SelectIdx(s, keep, i+1)

Range(s) == {s[i] : i \in 1..Len(s)}

(***************************************************************************)
(* URL references.  An attribute value is kept in lexed form: a sequence   *)
(* of tokens [k, s], k one of "scheme" (s followed by ":"), "host" ("//"   *)
(* followed by s), "path" (s) and "hash" ("#" followed by s).  The raw     *)
(* string is the concatenation; <<>> is the empty string.                  *)
(***************************************************************************)
Tok(k, s) == [k |-> k, s |-> s]

TokField(ref, k) ==
    IF \E i \in 1..Len(ref) : ref[i].k = k
    THEN <<ref[CHOOSE i \in 1..Len(ref) : ref[i].k = k].s>>
    ELSE <<>>

\* url.parse(ref): the fields the program reads; null when a part is absent.
url_parse(ref) ==
    [protocol |-> IF TokField(ref, "scheme") = <<>> THEN Null
                  ELSE TokField(ref, "scheme")[1] \o ":",
     host     |-> IF TokField(ref, "host") = <<>> THEN Null
                  ELSE TokField(ref, "host")[1],
     path     |-> IF TokField(ref, "path") = <<>> THEN Null
                  ELSE TokField(ref, "path")[1],
     hash     |-> IF TokField(ref, "hash") = <<>> THEN Null
                  ELSE "#" \o TokField(ref, "hash")[1]]

\* url.format(parsed): the string of the parts that are not null.
url_format(p) ==
    (IF p.protocol = Null THEN "" ELSE p.protocol)
    \o (IF p.host = Null THEN "" ELSE "//" \o p.host)
    \o (IF p.path = Null THEN "" ELSE p.path)
    \o (IF p.hash = Null THEN "" ELSE p.hash)

\* The document's URL and the directory relative references resolve against.
document_dir == "https://www.example.org/doc/"

document_url == document_dir \o "index.html"

\* url.resolve(document_url, ref) for a relative path.
url_resolve(ref) == document_dir \o ref

(***************************************************************************)
(* The document.  html_element is the sequence of the elements the program *)
(* queries, in document order: [tag, rel, alt, has, val], where has says   *)
(* whether the attribute the program reads from that tag (img/src, a/href, *)
(* link/href, object/data) is present and val is its value in lexed form.  *)
(***************************************************************************)
Elem(tag, rel, alt, has, val) ==
    [tag |-> tag, rel |-> rel, alt |-> alt, has |-> has, val |-> val]

\* The value of a relative reference path, e.g. 'fig.png'.
Rel(path) == <<Tok("path", path)>>

\* A setAttribute that leaves the element as it was.
setAttribute_ignored(html, i, path) == html

\* element.setAttribute(attr, value) on element i, value a relative path.
setAttribute(html, i, path) ==
    [html EXCEPT ![i] = [@ EXCEPT !.has = TRUE, !.val = Rel(path)]]

(***************************************************************************)
(* css.extract (src/unnamed/part_003).  A CSS template is a sequence of    *)
(* text pieces; the piece "%%%LOGO%%%" is the placeholder.                 *)
(***************************************************************************)
LOGO == "%%%LOGO%%%"

extra_css == <<"body{padding:0 0 0 0 !important}", "h2{page-break-before:always}",
               "#toc-nav,#toc-toggle-inline{display:none}", "nav#toc{display:none}">>

background_template ==
    <<"body{background-image:url(logos/", LOGO, ")}">> \o extra_css

undefined_template ==
    <<"body{background-image:url(logos/", LOGO, ");background-color:transparent}",
      "html{background:white url(logos/UD-watermark.png)}">> \o extra_css

bg_template ==
    <<"@media screen and (min-width:28em){body{background-image:url('logos/", LOGO,
      "');background-size:auto !important;padding-left:150px}}",
      "@media screen and (min-width:78em){body:not(.toc-inline) #toc{padding-top:150px}}",
      "@media screen{body.toc-sidebar #toc{padding-top:150px}}">> \o extra_css

cg_draft_template ==
    <<"body{background-image:url('logos/", LOGO, "');background-size:auto !important}",
      "@media screen and (min-width:28em){body{padding-left:160px}}",
      "@media screen and (min-width:78em){body:not(.toc-inline) #toc{padding-top:160px}}",
      "@media screen{body.toc-sidebar #toc{padding-top:160px}}",
      "body{background-color:transparent}",
      "html{background:white url(logos/UD-watermark.png);background-repeat:repeat-x}">>
    \o extra_css

cg_final_template ==
    <<"body{background-image:url('logos/", LOGO, "');background-size:auto !important}",
      "@media screen and (min-width:28em){body{padding-left:160px}}",
      "@media screen and (min-width:78em){body:not(.toc-inline) #toc{padding-top:160px}}",
      "@media screen{body.toc-sidebar #toc{padding-top:160px}}">> \o extra_css

\* String.prototype.replace(pattern, by) with a string pattern: the first
\* occurrence only.
replace(template, pattern, by) ==
    IF \E i \in 1..Len(template) : template[i] = pattern
    THEN LET first == CHOOSE i \in 1..Len(template) :
                          /\ template[i] = pattern
                          /\ \A j \in 1..(i-1) : template[j] # pattern
         IN [template EXCEPT ![first] = by]
    ELSE template

specStatus_simple ==
    <<"ED", "WD", "CR", "PR", "PER", "REC", "RSCND", "OBSL", "SPSD">>

\* An entry of the mapping; logo_media_type Undefined and special_template
\* <<>> when the source gives none.
CssMapping(watermark, logo_name, logo_media_type, special_template) ==
    [watermark |-> watermark, logo_name |-> logo_name,
     logo_media_type |-> logo_media_type, special_template |-> special_template]

specStatus_css ==
    [key \in {"UNOFFICIAL", "FPWD", "LC", "FPWD-NOTE", "WG-NOTE",
              "BG-DRAFT", "BG-FINAL", "CG-DRAFT", "CG-FINAL"} |->
       CASE key = "UNOFFICIAL" -> CssMapping(TRUE,  "UD.png", "image/png", undefined_template)
         [] key = "FPWD"       -> CssMapping(FALSE, "WD.svg", Undefined, <<>>)
         [] key = "LC"         -> CssMapping(FALSE, "WD.svg", Undefined, <<>>)
         [] key = "FPWD-NOTE"  -> CssMapping(FALSE, "WG-Note.svg", Undefined, <<>>)
         [] key = "WG-NOTE"    -> CssMapping(FALSE, "WG-Note.svg", Undefined, <<>>)
         [] key = "BG-DRAFT"   -> CssMapping(FALSE, "back-bg-draft.png", "image/png", bg_template)
         [] key = "BG-FINAL"   -> CssMapping(FALSE, "back-bg-final.png", "image/png", bg_template)
         [] key = "CG-DRAFT"   -> CssMapping(TRUE,  "back-cg-draft.png", "image/png", cg_draft_template)
         [] key = "CG-FINAL"   -> CssMapping(FALSE, "back-cg-final.png", "image/png", cg_final_template)]

\* A ResourceRef; the fields the source leaves out are Undefined (strings)
\* or <<>> (text_content).
ResourceRef(relative_url, media_type, absolute_url, text_content, id, properties) ==
    [relative_url |-> relative_url, media_type |-> media_type,
     absolute_url |-> absolute_url, text_content |-> text_content,
     id |-> id, properties |-> properties]

\* The first stylesheet link with an href, whatever its host.
css_link_element_any_host(html) ==
    LET owned == {i \in 1..Len(html) :
                    /\ html[i].tag = "link" /\ html[i].rel = "stylesheet"
                    /\ html[i].has}
    IN IF owned = {} THEN 0 ELSE CHOOSE i \in owned : \A j \in owned : i <= j

\* css_link_element(): the index of the first stylesheet link with an href
\* whose host is www.w3.org; 0 when find() returns undefined.
css_link_element(html) ==
    LET owned == {i \in 1..Len(html) :
                    /\ html[i].tag = "link" /\ html[i].rel = "stylesheet"
                    /\ html[i].has
                    /\ url_parse(html[i].val).host = "www.w3.org"}
    IN IF owned = {} THEN 0 ELSE CHOOSE i \in owned : \A j \in owned : i <= j

\* specStatus_simple.includes(global.config.specStatus)
specStatus_simple_includes(status) ==
    \E i \in 1..Len(specStatus_simple) : specStatus_simple[i] = Join(status)

\* A synthesized entry that asks for the watermark.
css_extras_of_watermarked(status) ==
    IF Join(toUpperCase(status)) \in DOMAIN specStatus_css
    THEN <<specStatus_css[Join(toUpperCase(status))]>>
    ELSE IF specStatus_simple_includes(status)
    THEN <<CssMapping(TRUE, Join(status) \o ".svg", Undefined, <<>>)>>
    ELSE <<>>

\* Lines 356-364: the mapping entry for the status, <<>> when css_extras
\* stays undefined.
css_extras_of(status) ==
    IF Join(toUpperCase(status)) \in DOMAIN specStatus_css
    THEN <<specStatus_css[Join(toUpperCase(status))]>>
    ELSE IF specStatus_simple_includes(status)
    THEN <<CssMapping(FALSE, Join(status) \o ".svg", Undefined, <<>>)>>
    ELSE <<>>

\* The resources for a mapping entry, always with the generic template.
css_extras_resources_generic(css_extras) ==
    <<ResourceRef("StyleSheets/TR/2016/logos/" \o css_extras.logo_name,
                  IF Truthy(css_extras.logo_media_type)
                  THEN css_extras.logo_media_type ELSE "image/svg",
                  "https://www.w3.org/StyleSheets/TR/2016/logos/" \o css_extras.logo_name,
                  <<>>, Undefined, Undefined)>>
    \o (IF css_extras.watermark
        THEN <<ResourceRef("StyleSheets/TR/2016/logos/UD-watermark.png", "image/png",
                  "https://www.w3.org/StyleSheets/TR/2016/logos/$UD-watermark.png",
                  <<>>, Undefined, Undefined)>>
        ELSE <<>>)
    \o <<ResourceRef("StyleSheets/TR/2016/epub.css", "text/css", Undefined,
                     replace(background_template, LOGO, css_extras.logo_name),
                     Undefined, Undefined)>>

\* The resources of lines 366-393 for a mapping entry.
css_extras_resources(css_extras) ==
    LET template == replace(IF css_extras.special_template # <<>>
                            THEN css_extras.special_template
                            ELSE background_template,
                            LOGO, css_extras.logo_name)
    IN  <<ResourceRef("StyleSheets/TR/2016/logos/" \o css_extras.logo_name,
                      IF Truthy(css_extras.logo_media_type)
                      THEN css_extras.logo_media_type ELSE "image/svg",
                      "https://www.w3.org/StyleSheets/TR/2016/logos/" \o css_extras.logo_name,
                      <<>>, Undefined, Undefined)>>
        \o (IF css_extras.watermark
            THEN <<ResourceRef("StyleSheets/TR/2016/logos/UD-watermark.png", "image/png",
                      "https://www.w3.org/StyleSheets/TR/2016/logos/$UD-watermark.png",
                      <<>>, Undefined, Undefined)>>
            ELSE <<>>)
        \o <<ResourceRef("StyleSheets/TR/2016/epub.css", "text/css", Undefined,
                         template, Undefined, Undefined)>>

\* extract(global): [threw, retval, html].  specStatus is <<>> when the
\* configuration has none: undefined.toUpperCase() throws a TypeError after
\* the link has been rewritten.
extract(html, specStatus) ==
    LET the_link == css_link_element(html)
        base     == ResourceRef("StyleSheets/TR/2016/base.css", "text/css",
                                "https://www.w3.org/StyleSheets/TR/2016/base.css",
                                <<>>, Undefined, Undefined)
        html1    == setAttribute(html, the_link, "StyleSheets/TR/2016/base.css")
    IN  IF the_link = 0
        THEN [threw |-> FALSE, retval |-> <<>>, html |-> html]
        ELSE IF specStatus = <<>>
        THEN [threw |-> TRUE, retval |-> <<base>>, html |-> html1]
        ELSE IF css_extras_of(specStatus[1]) = <<>>
        THEN [threw |-> FALSE, retval |-> <<base>>, html |-> html1]
        ELSE [threw |-> FALSE,
              retval |-> <<base>> \o css_extras_resources(css_extras_of(specStatus[1])[1]),
              html |-> Append(html1, Elem("link", "stylesheet", "", TRUE,
                                          Rel("StyleSheets/TR/2016/epub.css")))]

(***************************************************************************)
(* PackageWrapper (src/dist/lib/home.js).                                  *)
(***************************************************************************)
PackageWrapper(identifier, title) ==
    [id |-> 0, identifier |-> identifier, title |-> title,
     creator |-> <<>>,
     meta |-> <<[property |-> "title-type", refines |-> "#title", text |-> "main"],
                [property |-> "cc:attributionURL", refines |-> Undefined,
                 text |-> "https://www.w3.org"]>>,
     item |-> <<>>,
     itemref |-> <<"start", "main">>]

\* Creators whose ids are numbered from 0 again in every call.
add_creators_restarting(pkg, creators) ==
    [pkg EXCEPT
       !.creator = @ \o [i \in 1..Len(creators) |->
                           [id |-> "creator_id_" \o ToString(i - 1),
                            text |-> creators[i]]],
       !.meta = @ \o [i \in 1..Len(creators) |->
                        [property |-> "role",
                         refines |-> "#creator_id_" \o ToString(i - 1),
                         text |-> "edt"]],
       !.id = @ + Len(creators)]

\* `creator_id_${this.id}`: ToString is the decimal numeral of the counter.
RECURSIVE add_creators(_, _)
add_creators(pkg, creators) ==
    IF creators = <<>> THEN pkg
    ELSE add_creators(
           [pkg EXCEPT
              !.creator = Append(@, [id |-> "creator_id_" \o ToString(pkg.id),
                                     text |-> Head(creators)]),
              !.meta = Append(@, [property |-> "role",
                                  refines |-> "#creator_id_" \o ToString(pkg.id),
                                  text |-> "edt"]),
              !.id = @ + 1],
           Tail(creators))

add_dates(pkg, date) ==
    [pkg EXCEPT !.meta = @ \o
        <<[property |-> "dcterms:date", refines |-> Undefined,
           text |-> date \o "T00:00:00Z"],
          [property |-> "dcterms:modified", refines |-> Undefined,
           text |-> date \o "T00:00:00Z"]>>]

\* item: [href, media_type, id, properties]; an undefined @properties is deleted.
add_manifest_item(pkg, item) == [pkg EXCEPT !.item = Append(@, item)]

\* serialize(): the XML, one string per element, in document order.
serialize(pkg) ==
    <<"<dc:identifier id='pub-id'>" \o pkg.identifier,
      "<dc:title id='title'>" \o pkg.title>>
    \o [i \in 1..Len(pkg.creator) |->
          "<dc:creator id='" \o pkg.creator[i].id \o "'>" \o pkg.creator[i].text]
    \o [i \in 1..Len(pkg.meta) |->
          "<meta property='" \o pkg.meta[i].property \o "'"
          \o (IF pkg.meta[i].refines = Undefined THEN ""
              ELSE " refines='" \o pkg.meta[i].refines \o "'")
          \o ">" \o pkg.meta[i].text]
    \o [i \in 1..Len(pkg.item) |->
          "<item href='" \o pkg.item[i].href \o "' media-type='"
          \o pkg.item[i].media_type \o "' id='" \o pkg.item[i].id \o "'"
          \o (IF pkg.item[i].properties = Undefined THEN ""
              ELSE " properties='" \o pkg.item[i].properties \o "'")
          \o ">"]
    \o [i \in 1..Len(pkg.itemref) |-> "<itemref idref='" \o pkg.itemref[i] \o "'>"]

(***************************************************************************)
(* The parts of the repository that process() calls and that are not in    *)
(* the source tree at hand: the OCF container, the cover and navigation    *)
(* builders and the document transformer, as the specification describes   *)
(* them.                                                                   *)
(***************************************************************************)
\* new OCF(name): the mimetype marker, stored uncompressed, then
\* META-INF/container.xml pointing at package.opf.
OCF_new(name) ==
    [name |-> name, finalized |-> FALSE,
     content |-> <<[path |-> "mimetype", compressed |-> FALSE,
                    content |-> <<"application/epub+zip">>],
                   [path |-> "META-INF/container.xml", compressed |-> TRUE,
                    content |-> <<"<rootfile full-path='package.opf'>">>]>>]

\* An append that puts the new entry first.
OCF_append_first(ocf, content, path) ==
    [ocf EXCEPT !.content = <<[path |-> path, compressed |-> TRUE,
                               content |-> content]>> \o @]

\* OCF.append(content, path)
OCF_append(ocf, content, path) ==
    [ocf EXCEPT !.content = Append(@, [path |-> path, compressed |-> TRUE,
                                       content |-> content])]

RECURSIVE OCF_append_all(_, _)
\* forEach(the_book.append) over a list of [content, path].
OCF_append_all(ocf, entries) ==
    IF entries = <<>> THEN ocf
    ELSE OCF_append_all(OCF_append(ocf, Head(entries).content, Head(entries).path),
                        Tail(entries))

\* OCF.finalize()
OCF_finalize(ocf) == [ocf EXCEPT !.finalized = TRUE]

\* cover.create_cover_page(global): one generated page with a fixed path.
create_cover_page(g) ==
    <<ResourceRef("cover.xhtml", "application/xhtml+xml", Undefined,
                  <<"<title>" \o g.package[1].title>>, "start", Undefined)>>

\* nav.create_nav_file(global): one generated navigation document.
create_nav_file(g) ==
    <<ResourceRef("nav.xhtml", "application/xhtml+xml", Undefined,
                  <<"<nav>">>, "nav", "nav")>>

\* create_xhtml.convert_dom(dom): the serialized tree, one string per element.
convert_dom(html) ==
    [i \in 1..Len(html) |->
        "<" \o html[i].tag
        \o (IF html[i].rel = "" THEN "" ELSE " rel='" \o html[i].rel \o "'")
        \o (IF html[i].alt = "" THEN "" ELSE " alt='" \o html[i].alt \o "'")
        \o (IF html[i].has THEN " ref='" \o url_format(url_parse(html[i].val)) \o "'"
            ELSE "")
        \o ">"]

(***************************************************************************)
(* The network.  The server answers a media type lookup with the           *)
(* content-type header of the resource (null when it sends none) and a     *)
(* fetch with the bytes of the resource; either can fail.                  *)
(***************************************************************************)
ServerType(url) ==
    CASE url = url_resolve("fig.png")                      -> "image/png"
      [] url = url_resolve("StyleSheets/TR/2016/base.css") -> "text/css"
      [] url = url_resolve("data.svg")                     -> "image/svg+xml"
      [] OTHER                                             -> Null

ServerBytes(url) == <<"bytes of " \o url>>

(***************************************************************************)
(* Promise.all over a batch of n requests: st[i] is the state of request   *)
(* i and val[i] the i-th value of the array the await yields.              *)
(***************************************************************************)
Pending == "(pending)"

Batch(n) == [st |-> [i \in 1..n |-> "pending"], val |-> [i \in 1..n |-> Pending]]

\* The values collected in the order the requests complete.
promise_all_settle_in_completion_order(b, i, v) ==
    [b EXCEPT !.st[i] = "ok",
              !.val[Cardinality({j \in DOMAIN b.st : b.st[j] = "ok"}) + 1] = v]

\* A batch whose i-th request has resolved with v, stored at the index of the
\* request, whenever it completes.
promise_all_settle(b, i, v) == [b EXCEPT !.st[i] = "ok", !.val[i] = v]

promise_all_resolved(b) == \A i \in DOMAIN b.st : b.st[i] = "ok"

\* _.zip(a, b)
zip2(a, b) == [i \in 1..Len(a) |-> <<a[i], b[i]>>]

(***************************************************************************)
(* get_extra_resources (src/src/lib/process.ts).                           *)
(***************************************************************************)
resource_references ==
    <<[query |-> "img", attr |-> "src"], [query |-> "a", attr |-> "href"],
      [query |-> "link[rel=\"stylesheet\"]", attr |-> "href"],
      [query |-> "object", attr |-> "data"]>>

\* element.matches(query) for the queries of resource_references.
matches(el, query) ==
    CASE query = "img"    -> el.tag = "img"
      [] query = "a"      -> el.tag = "a"
      [] query = "object" -> el.tag = "object"
      [] OTHER            -> el.tag = "link" /\ el.rel = "stylesheet"

\* querySelectorAll(query): the indices of the matching elements, in order.
querySelectorAll(html, query) ==
    SelectIdx([i \in 1..Len(html) |-> i],
              {i \in 1..Len(html) : matches(html[i], query)}, 1)

RECURSIVE flatten(_)
flatten(ss) == IF ss = <<>> THEN <<>> ELSE Head(ss) \o flatten(Tail(ss))

\* Lines 232-237: the elements whose attribute is read, query by query.
candidates(html) ==
    flatten([r \in 1..Len(resource_references) |->
               querySelectorAll(html, resource_references[r].query)])

\* Lines 239-247: ref is neither '' nor null, has no protocol and has a path.
is_relative(el) ==
    /\ el.has /\ el.val # <<>>
    /\ url_parse(el.val).protocol = Null
    /\ url_parse(el.val).path # Null

\* A reference that is returned with its fragment.
strip_hash_keeping(ref) == url_format(url_parse(ref))

\* Lines 249-254: the reference without its fragment.
strip_hash(ref) == url_format([url_parse(ref) EXCEPT !.hash = Null])

target_urls(html) ==
    LET c    == candidates(html)
        kept == SelectIdx(c, {k \in 1..Len(c) : is_relative(html[c[k]])}, 1)
    IN  [k \in 1..Len(kept) |-> strip_hash(html[kept[k]].val)]

relative_urls(html) == uniq(target_urls(html))

absolute_urls(html) ==
    [i \in 1..Len(relative_urls(html)) |-> url_resolve(relative_urls(html)[i])]

\* A collector whose ResourceRefs carry no absolute URL.
get_extra_resources_return_without_urls(html, media_types) ==
    [i \in 1..Len(relative_urls(html)) |->
        ResourceRef(relative_urls(html)[i], media_types[i], Undefined,
                    <<>>, Undefined, Undefined)]

\* Lines 263-269: _.zip(relative_urls, media_types, absolute_urls).map(...)
get_extra_resources_return(html, media_types) ==
    [i \in 1..Len(relative_urls(html)) |->
        ResourceRef(relative_urls(html)[i], media_types[i], absolute_urls(html)[i],
                    <<>>, Undefined, Undefined)]

(***************************************************************************)
(* State.                                                                  *)
(***************************************************************************)
VARIABLES
    server,     \* the document the server holds: [html, config]
    pc,         \* where process() stands
    global,     \* the Global of the run: [html_element, config, package, resources]
    types,      \* the batch of fetch_type calls of get_extra_resources
    contents,   \* the batch of fetch_resource calls of generate_epub
    the_book,   \* <<>>, or <<the OCF of generate_epub>>
    requests,   \* every request sent to the network, in order: [fn, url]
    outcome,    \* the promise process() returned: [state, error]
    collected,  \* what each call of get_extra_resources returned (collector runs)
    css,        \* the two documents css.extract is applied to (resolver runs)
    book,       \* the collection run of create_epub
    fetcher,    \* one call of a function of the fetch module (fetch runs)
    conversion, \* one call of convert() (entry point runs)
    wrapper     \* one PackageWrapper and the calls made on it (package runs)

procVars == <<server, pc, global, types, contents, the_book, requests, outcome>>

libVars == <<fetcher, conversion, wrapper>>

vars == <<server, pc, global, types, contents, the_book, requests, outcome,
          collected, css, book, fetcher, conversion, wrapper>>

(***************************************************************************)
(* Bounds and inputs.                                                      *)
(***************************************************************************)
\* The longest document, in elements.
MaxElems == 2

Abs(scheme, host, path) == <<Tok("scheme", scheme), Tok("host", host), Tok("path", path)>>

W3C_css_link ==
    Elem("link", "stylesheet", "", TRUE,
         Abs("https", "www.w3.org", "/StyleSheets/TR/2016/W3C-REC"))

W3C_logo_img ==
    Elem("img", "", "W3C", TRUE,
         Abs("https", "www.w3.org", "/StyleSheets/TR/2016/logos/W3C"))

\* The elements documents are made of.
ElemPool ==
    { Elem("img", "", "", TRUE, Rel("fig.png")),
      Elem("a", "", "", TRUE, <<Tok("path", "fig.png"), Tok("hash", "sec")>>),
      Elem("a", "", "", TRUE, <<Tok("hash", "top")>>),
      Elem("a", "", "", TRUE, Abs("https", "www.example.org", "/other.html")),
      Elem("a", "", "", TRUE, <<>>),
      Elem("object", "", "", TRUE, Rel("data.svg")),
      Elem("a", "", "", TRUE, Rel("LICENSE")),
      Elem("link", "stylesheet", "", TRUE, Rel("StyleSheets/TR/2016/base.css")),
      W3C_css_link,
      W3C_logo_img }

Documents == UNION {[1..n -> ElemPool] : n \in 0..MaxElems}

Chars(s) ==
    CASE s = "REC"      -> <<"R","E","C">>
      [] s = "rec"      -> <<"r","e","c">>
      [] s = "ED"       -> <<"E","D">>
      [] s = "WD"       -> <<"W","D">>
      [] s = "wd"       -> <<"w","d">>
      [] s = "CR"       -> <<"C","R">>
      [] s = "PR"       -> <<"P","R">>
      [] s = "PER"      -> <<"P","E","R">>
      [] s = "RSCND"    -> <<"R","S","C","N","D">>
      [] s = "OBSL"     -> <<"O","B","S","L">>
      [] s = "SPSD"     -> <<"S","P","S","D">>
      [] s = "UNOFFICIAL" -> <<"U","N","O","F","F","I","C","I","A","L">>
      [] s = "unofficial" -> <<"u","n","o","f","f","i","c","i","a","l">>
      [] s = "FPWD"     -> <<"F","P","W","D">>
      [] s = "LC"       -> <<"L","C">>
      [] s = "FPWD-NOTE" -> <<"F","P","W","D","-","N","O","T","E">>
      [] s = "WG-NOTE"  -> <<"W","G","-","N","O","T","E">>
      [] s = "BG-DRAFT" -> <<"B","G","-","D","R","A","F","T">>
      [] s = "BG-FINAL" -> <<"B","G","-","F","I","N","A","L">>
      [] s = "CG-DRAFT" -> <<"C","G","-","D","R","A","F","T">>
      [] s = "cg-draft" -> <<"c","g","-","d","r","a","f","t">>
      [] s = "Cg-Draft" -> <<"C","g","-","D","r","a","f","t">>
      [] s = "CG-FINAL" -> <<"C","G","-","F","I","N","A","L">>
      [] s = "base"     -> <<"b","a","s","e">>
      [] s = "MO"       -> <<"M","O">>

\* The specStatus values of the single document runs; <<>>: not set.
RunStatuses == {<<>>} \cup {<<Chars(s)>> : s \in {"REC", "rec", "CG-DRAFT", "base"}}

Config(specStatus) ==
    [shortName |-> "doc", specStatus |-> specStatus,
     editors |-> <<[name |-> "Ann", company |-> "W3C"]>>]

\* The documents a server can hold: without script#initialUserConfig
\* (config <<>>) or with one.
Servers ==
    {[html |-> d, config |-> <<>>] : d \in Documents}
    \cup {[html |-> d, config |-> <<Config(st)>>] : d \in Documents, st \in RunStatuses}

NoGlobal == [html_element |-> <<>>, config |-> <<>>, package |-> <<>>, resources |-> <<>>]

IdleProc ==
    /\ pc = "idle" /\ server = [html |-> <<>>, config |-> <<>>]
    /\ global = NoGlobal /\ types = Batch(0) /\ contents = Batch(0)
    /\ the_book = <<>> /\ requests = <<>>
    /\ outcome = [state |-> "pending", error |-> ""]

IdleCollected == collected = <<>>

IdleCss == css = <<>>

IdleBook == book = <<>>

IdleFetcher == fetcher = <<>>

IdleConversion == conversion = <<>>

IdleWrapper == wrapper = <<>>

IdleLib == IdleFetcher /\ IdleConversion /\ IdleWrapper

Init ==
    /\ server \in Servers
    /\ pc = "start"
    /\ global = NoGlobal
    /\ types = Batch(0) /\ contents = Batch(0)
    /\ the_book = <<>> /\ requests = <<>>
    /\ outcome = [state |-> "pending", error |-> ""]
    /\ IdleCollected /\ IdleCss /\ IdleBook /\ IdleLib

(***************************************************************************)
(* process(document_url)                                                   *)
(***************************************************************************)
\* A throw, or a rejected await, in process(): the promise it returned is
\* rejected and nothing of the run executes any more.
Reject(error) ==
    /\ pc' = "rejected"
    /\ outcome' = [state |-> "rejected", error |-> error]

\* Line 135: fetch_html(document_url) is called and awaited.
process_fetch_html ==
    /\ pc = "start"
    /\ requests' = Append(requests, [fn |-> "fetch_html", url |-> document_url])
    /\ pc' = "fetch_html"
    /\ UNCHANGED <<server, global, types, contents, the_book, outcome, collected, css, book, libVars>>

\* The document arrives (line 136), or fetch_html rejects.
fetch_html_settle ==
    /\ pc = "fetch_html"
    /\ \E ok \in BOOLEAN :
         IF ok
         THEN /\ global' = [global EXCEPT !.html_element = server.html]
              /\ pc' = "config"
              /\ UNCHANGED outcome
         ELSE /\ Reject("HTML parsing error")
              /\ UNCHANGED global
    /\ UNCHANGED <<server, types, contents, the_book, requests, collected, css, book, libVars>>

\* A configuration step that goes on with an empty configuration when the
\* document has no configuration script.
process_config_defaulting ==
    /\ pc = "config"
    /\ global' = [global EXCEPT !.config =
                     IF server.config = <<>> THEN <<Config(<<>>)>> ELSE server.config]
    /\ pc' = "package"
    /\ UNCHANGED outcome
    /\ UNCHANGED <<server, types, contents, the_book, requests, collected, css, book, libVars>>

\* Lines 139-147: the configuration script.
process_config ==
    /\ pc = "config"
    /\ IF server.config = <<>>
       THEN /\ Reject("User config is not available")
            /\ UNCHANGED global
       ELSE /\ global' = [global EXCEPT !.config = server.config]
            /\ pc' = "package"
            /\ UNCHANGED outcome
    /\ UNCHANGED <<server, types, contents, the_book, requests, collected, css, book, libVars>>

\* Lines 151-160: the package and its metadata.
process_package ==
    /\ pc = "package"
    /\ LET config == global.config[1]
           names  == [i \in 1..Len(config.editors) |->
                        config.editors[i].name \o ", " \o config.editors[i].company]
           pkg    == PackageWrapper("https://www.w3.org/TR/" \o config.shortName \o "/",
                                    "Title")
       IN global' = [global EXCEPT
                        !.package = <<add_dates(add_creators(pkg, names), "2020-06-01")>>]
    /\ pc' = "collect"
    /\ UNCHANGED <<server, types, contents, the_book, requests, outcome, collected, css, book, libVars>>

\* A collector that fetches the bytes of every resource it finds, next to
\* looking up its media type.
get_extra_resources_call_fetching ==
    /\ pc = "collect"
    /\ types' = Batch(Len(absolute_urls(global.html_element)))
    /\ requests' = requests \o
          [i \in 1..Len(absolute_urls(global.html_element)) |->
              [fn |-> "fetch_type", url |-> absolute_urls(global.html_element)[i]]] \o
          [i \in 1..Len(absolute_urls(global.html_element)) |->
              [fn |-> "fetch_resource", url |-> absolute_urls(global.html_element)[i]]]
    /\ pc' = "lookups"
    /\ UNCHANGED <<server, global, contents, the_book, outcome, collected, css, book, libVars>>

\* Lines 230-261: get_extra_resources up to its await; one fetch_type per
\* absolute URL is sent.
get_extra_resources_call ==
    /\ pc = "collect"
    /\ types' = Batch(Len(absolute_urls(global.html_element)))
    /\ requests' = requests \o
          [i \in 1..Len(absolute_urls(global.html_element)) |->
              [fn |-> "fetch_type", url |-> absolute_urls(global.html_element)[i]]]
    /\ pc' = "lookups"
    /\ UNCHANGED <<server, global, contents, the_book, outcome, collected, css, book, libVars>>

\* One fetch_type settles: with the content-type of its URL, or rejected, which
\* rejects the Promise.all, get_extra_resources and process().
fetch_type_settle(i) ==
    /\ pc = "lookups"
    /\ types.st[i] = "pending"
    /\ \E ok \in BOOLEAN :
         IF ok
         THEN /\ types' = promise_all_settle(types, i,
                              ServerType(absolute_urls(global.html_element)[i]))
              /\ UNCHANGED <<pc, outcome>>
         ELSE /\ types' = [types EXCEPT !.st[i] = "failed"]
              /\ Reject("Problem accessing")
    /\ UNCHANGED <<server, global, contents, the_book, requests, collected, css, book, libVars>>

\* Lines 261-269 and 164: every lookup has resolved.
get_extra_resources_return_to_process ==
    /\ pc = "lookups"
    /\ promise_all_resolved(types)
    /\ global' = [global EXCEPT
                    !.resources = get_extra_resources_return(global.html_element, types.val)]
    /\ pc' = "logo"
    /\ UNCHANGED <<server, types, contents, the_book, requests, outcome, collected, css, book, libVars>>

\* querySelector('img[alt="W3C"]'): the index of the first one, 0 for null.
logo_element(html) ==
    LET logos == {i \in 1..Len(html) : html[i].tag = "img" /\ html[i].alt = "W3C"}
    IN IF logos = {} THEN 0 ELSE CHOOSE i \in logos : \A j \in logos : i <= j

\* Lines 169-180: the W3C logo.
process_logo ==
    /\ pc = "logo"
    /\ IF logo_element(global.html_element) # 0
       THEN global' = [global EXCEPT
              !.html_element = setAttribute(@, logo_element(global.html_element),
                                            "StyleSheets/TR/2016/logos/W3C.svg"),
              !.resources = Append(@,
                  ResourceRef("StyleSheets/TR/2016/logos/W3C.svg", "image/svg+xml",
                              "https://www.w3.org/StyleSheets/TR/2016/logos/W3C",
                              <<>>, Undefined, Undefined))]
       ELSE UNCHANGED global
    /\ pc' = "css"
    /\ UNCHANGED <<server, types, contents, the_book, requests, outcome, collected, css, book, libVars>>

\* Line 184: css.extract(global); its TypeError rejects process().
process_css ==
    /\ pc = "css"
    /\ LET r == extract(global.html_element, global.config[1].specStatus)
       IN IF r.threw
          THEN /\ global' = [global EXCEPT !.html_element = r.html]
               /\ Reject("TypeError: Cannot read property 'toUpperCase' of undefined")
          ELSE /\ global' = [global EXCEPT !.html_element = r.html,
                                           !.resources = @ \o r.retval]
               /\ pc' = "cover"
               /\ UNCHANGED outcome
    /\ UNCHANGED <<server, types, contents, the_book, requests, collected, css, book, libVars>>

\* A cover step that runs the cover builder a second time.
process_cover_repeated ==
    /\ pc = "cover"
    /\ global' = [global EXCEPT
                    !.resources = create_cover_page(global) \o create_cover_page(global) \o @]
    /\ pc' = "nav"
    /\ UNCHANGED <<server, types, contents, the_book, requests, outcome, collected, css, book, libVars>>

\* Line 188: the cover page goes first.
process_cover ==
    /\ pc = "cover"
    /\ global' = [global EXCEPT !.resources = create_cover_page(global) \o @]
    /\ pc' = "nav"
    /\ UNCHANGED <<server, types, contents, the_book, requests, outcome, collected, css, book, libVars>>

\* Line 192: the navigation file goes first.
process_nav ==
    /\ pc = "nav"
    /\ global' = [global EXCEPT !.resources = create_nav_file(global) \o @]
    /\ pc' = "manifest"
    /\ UNCHANGED <<server, types, contents, the_book, requests, outcome, collected, css, book, libVars>>

RECURSIVE add_resources(_, _, _)
\* Lines 198-209: one manifest item per resource that has a relative_url.
add_resources(pkg, resources, res_id_num) ==
    IF resources = <<>> THEN pkg
    ELSE IF Truthy(Head(resources).relative_url)
    THEN add_resources(
            add_manifest_item(pkg,
               [href       |-> Head(resources).relative_url,
                media_type |-> Head(resources).media_type,
                id         |-> IF Truthy(Head(resources).id) THEN Head(resources).id
                               ELSE "res_id" \o ToString(res_id_num),
                properties |-> Head(resources).properties]),
            Tail(resources), res_id_num + 1)
    ELSE add_resources(pkg, Tail(resources), res_id_num)

\* Lines 196-210: the package is populated.
process_manifest ==
    /\ pc = "manifest"
    /\ global' = [global EXCEPT
                    !.package = <<add_resources(global.package[1], global.resources, 1)>>]
    /\ pc' = "epub"
    /\ UNCHANGED <<server, types, contents, the_book, requests, outcome, collected, css, book, libVars>>

(***************************************************************************)
(* generate_epub(global, epub_file_name)                                   *)
(***************************************************************************)
\* Lines 288-290: the resources with a text content, as [content, path].
text_resources(resources) ==
    LET r == SelectIdx(resources,
                       {i \in 1..Len(resources) : resources[i].text_content # <<>>}, 1)
    IN [i \in 1..Len(r) |-> [content |-> r[i].text_content, path |-> r[i].relative_url]]

\* Line 293: the resources with an absolute_url.
to_be_fetched(resources) ==
    SelectIdx(resources,
              {i \in 1..Len(resources) : Truthy(resources[i].absolute_url)}, 1)

file_names(resources) ==
    [i \in 1..Len(to_be_fetched(resources)) |-> to_be_fetched(resources)[i].relative_url]

urls(resources) ==
    [i \in 1..Len(to_be_fetched(resources)) |-> to_be_fetched(resources)[i].absolute_url]

\* Lines 274-296: the container is created and filled up to the await; one
\* fetch_resource per URL is sent.
generate_epub_call ==
    /\ pc = "epub"
    /\ the_book' =
         <<OCF_append_all(
              OCF_append(
                 OCF_append(OCF_new(global.config[1].shortName \o ".epub"),
                            serialize(global.package[1]), "package.opf"),
                 convert_dom(global.html_element), "Overview.xhtml"),
              text_resources(global.resources))>>
    /\ contents' = Batch(Len(urls(global.resources)))
    /\ requests' = requests \o
          [i \in 1..Len(urls(global.resources)) |->
              [fn |-> "fetch_resource", url |-> urls(global.resources)[i]]]
    /\ pc' = "fetches"
    /\ UNCHANGED <<server, global, types, outcome, collected, css, book, libVars>>

\* A fetch whose failure is swallowed: the content is undefined and the run
\* goes on.
fetch_resource_settle_swallowing(i) ==
    /\ pc = "fetches"
    /\ contents.st[i] = "pending"
    /\ \E ok \in BOOLEAN :
         contents' = IF ok
                     THEN promise_all_settle(contents, i,
                                             ServerBytes(urls(global.resources)[i]))
                     ELSE [contents EXCEPT !.st[i] = "failed"]
    /\ UNCHANGED <<pc, outcome>>
    /\ UNCHANGED <<server, global, types, the_book, requests, collected, css, book, libVars>>

\* A fetch whose callback appends the fetched content to the container as soon
\* as it arrives, while the other fetches of the batch are still in flight.
fetch_resource_settle_appending(i) ==
    /\ pc = "fetches"
    /\ contents.st[i] = "pending"
    /\ \E ok \in BOOLEAN :
         IF ok
         THEN /\ contents' = promise_all_settle(contents, i,
                                 ServerBytes(urls(global.resources)[i]))
              /\ the_book' = <<OCF_append(the_book[1],
                                          ServerBytes(urls(global.resources)[i]),
                                          file_names(global.resources)[i])>>
              /\ UNCHANGED <<pc, outcome>>
         ELSE /\ contents' = [contents EXCEPT !.st[i] = "failed"]
              /\ the_book' = the_book
              /\ Reject("Problem accessing")
    /\ UNCHANGED <<server, global, types, requests, collected, css, book, libVars>>

\* One fetch_resource settles: with the bytes of its URL, or rejected, which
\* rejects the Promise.all, generate_epub and process().
fetch_resource_settle(i) ==
    /\ pc = "fetches"
    /\ contents.st[i] = "pending"
    /\ \E ok \in BOOLEAN :
         IF ok
         THEN /\ contents' = promise_all_settle(contents, i,
                                 ServerBytes(urls(global.resources)[i]))
              /\ UNCHANGED <<pc, outcome>>
         ELSE /\ contents' = [contents EXCEPT !.st[i] = "failed"]
              /\ Reject("Problem accessing")
    /\ UNCHANGED <<server, global, types, the_book, requests, collected, css, book, libVars>>

\* An append step that also registers the fetched resources in the package.
generate_epub_append_registering ==
    /\ pc = "fetches"
    /\ promise_all_resolved(contents)
    /\ the_book' =
         <<OCF_append_all(the_book[1],
              [i \in 1..Len(file_names(global.resources)) |->
                  [content |-> zip2(contents.val, file_names(global.resources))[i][1],
                   path    |-> zip2(contents.val, file_names(global.resources))[i][2]]])>>
    /\ global' = [global EXCEPT
                    !.package = <<add_resources(global.package[1],
                                                to_be_fetched(global.resources), 1)>>]
    /\ pc' = "finalize"
    /\ UNCHANGED <<server, types, contents, requests, outcome, collected, css, book, libVars>>

\* Lines 296-300: every fetch has resolved; the contents are appended and
\* finalize() is called and awaited.
generate_epub_append ==
    /\ pc = "fetches"
    /\ promise_all_resolved(contents)
    /\ the_book' =
         <<OCF_append_all(the_book[1],
              [i \in 1..Len(file_names(global.resources)) |->
                  [content |-> zip2(contents.val, file_names(global.resources))[i][1],
                   path    |-> zip2(contents.val, file_names(global.resources))[i][2]]])>>
    /\ pc' = "finalize"
    /\ UNCHANGED <<server, global, types, contents, requests, outcome, collected, css, book, libVars>>

\* finalize() resolves; generate_epub and process() return.
finalize_settle ==
    /\ pc = "finalize"
    /\ the_book' = <<OCF_finalize(the_book[1])>>
    /\ pc' = "done"
    /\ outcome' = [state |-> "resolved", error |-> ""]
    /\ UNCHANGED <<server, global, types, contents, requests, collected, css, book, libVars>>

Next ==
    \/ process_fetch_html
    \/ fetch_html_settle
    \/ process_config
    \/ process_package
    \/ get_extra_resources_call
    \/ \E i \in DOMAIN types.st : fetch_type_settle(i)
    \/ get_extra_resources_return_to_process
    \/ process_logo
    \/ process_css
    \/ process_cover
    \/ process_nav
    \/ process_manifest
    \/ generate_epub_call
    \/ \E i \in DOMAIN contents.st : fetch_resource_settle(i)
    \/ generate_epub_append
    \/ finalize_settle

Spec == Init /\ [][Next]_vars

(***************************************************************************)
(* Properties of the single document run (Spec).                           *)
(***************************************************************************)
AfterManifest == pc \in {"epub", "fetches", "finalize", "done"}

Hrefs(pkg) == {pkg.item[i].href : i \in 1..Len(pkg.item)}

\* C1: once process() has populated the package (step 8), no two manifest
\* items share an @href: the manifest holds exactly one item per distinct
\* relative path of the resources of the collector, the logo step,
\* css.extract, the cover builder and the navigation builder.
C1_ManifestHrefsUnique ==
    AfterManifest =>
        /\ \A i, j \in 1..Len(global.package[1].item) :
              i # j => global.package[1].item[i].href # global.package[1].item[j].href
        /\ Len(global.package[1].item)
             = Cardinality({global.resources[i].relative_url :
                              i \in 1..Len(global.resources)})

\* C2: in every container, the first entry is the mimetype marker stored
\* uncompressed, the second is META-INF/container.xml pointing at package.opf,
\* and everything generate_epub appends (package.opf, Overview.xhtml, the
\* text resources, the fetched resources) comes after these two.
C2_ContainerLayout ==
    the_book # <<>> =>
        LET c == the_book[1].content
        IN  /\ Len(c) >= 4
            /\ c[1].path = "mimetype" /\ ~c[1].compressed
            /\ c[1].content = <<"application/epub+zip">>
            /\ c[2].path = "META-INF/container.xml"
            /\ c[2].content = <<"<rootfile full-path='package.opf'>">>
            /\ c[3].path = "package.opf"
            /\ c[4].path = "Overview.xhtml"
            /\ \A k \in 3..Len(c) : c[k].path \notin {"mimetype", "META-INF/container.xml"}
            /\ \A r \in 1..Len(global.resources) :
                  (pc \in {"finalize", "done"} \/ global.resources[r].text_content # <<>>)
                  => \E k \in 5..Len(c) : c[k].path = global.resources[r].relative_url

C2_Witness ==
    /\ pc = "done"
    /\ Len(the_book[1].content) >= 8
    /\ \E k \in 5..Len(the_book[1].content) :
          the_book[1].content[k].content = ServerBytes(url_resolve("fig.png"))

\* A status that is in neither the explicit mapping nor the regular set, in
\* any letter case, or that is not set at all.
UnknownStatus(specStatus) ==
    \/ specStatus = <<>>
    \/ /\ Join(toUpperCase(specStatus[1])) \notin DOMAIN specStatus_css
       /\ Join(toUpperCase(specStatus[1])) \notin Range(specStatus_simple)

CssPaths ==
    {"StyleSheets/TR/2016/epub.css", "StyleSheets/TR/2016/logos/UD-watermark.png"}
    \cup {"StyleSheets/TR/2016/logos/" \o specStatus_css[k].logo_name :
             k \in DOMAIN specStatus_css}
    \cup {"StyleSheets/TR/2016/logos/" \o specStatus_simple[i] \o ".svg" :
             i \in 1..Len(specStatus_simple)}

\* C4: for a document whose specStatus is in neither the explicit mapping nor
\* the regular set, or is not set, css.extract registers no logo, no watermark
\* and no epub.css, appends no stylesheet link, and the run does not fail.
C4_UnknownStatusIsHarmless ==
    (server.config # <<>> /\ UnknownStatus(server.config[1].specStatus)) =>
        /\ pc = "rejected" =>
              outcome.error \in {"HTML parsing error", "Problem accessing"}
        /\ pc \in {"cover", "nav", "manifest", "epub", "fetches", "finalize", "done"} =>
              /\ \A i \in 1..Len(global.resources) :
                    global.resources[i].relative_url \notin CssPaths
              /\ Len(global.html_element) = Len(server.html)

CountRequests(fn) == Cardinality({i \in 1..Len(requests) : requests[i].fn = fn})

\* C8: if a media type lookup of the collector or a resource fetch of
\* generate_epub fails, process() rejects, no lookup or fetch is sent again,
\* the container is never finalized and no container is handed to the caller.
C8_FailFast ==
    ((\E i \in DOMAIN types.st : types.st[i] = "failed")
       \/ (\E i \in DOMAIN contents.st : contents.st[i] = "failed")) =>
        /\ outcome.state = "rejected" /\ pc = "rejected"
        /\ the_book # <<>> => ~the_book[1].finalized
        /\ CountRequests("fetch_type") = Len(types.st)
        /\ CountRequests("fetch_resource") = Len(contents.st)
        /\ CountRequests("fetch_html") = 1
        /\ ~ ENABLED Next

C8_Witness ==
    /\ \E i \in DOMAIN contents.st : contents.st[i] = "failed"
    /\ \E i \in DOMAIN contents.st : contents.st[i] = "ok"
    /\ Len(types.st) >= 1
    /\ Len(the_book[1].content) > 4

\* The position of the first reference to path p among the references the
\* collector keeps, query by query.
FirstOccurrence(html, p) ==
    CHOOSE k \in 1..Len(target_urls(html)) :
        /\ target_urls(html)[k] = p
        /\ \A j \in 1..(k-1) : target_urls(html)[j] # p

\* The entries generate_epub appends after the await, in order.
FetchedEntries ==
    SubSeq(the_book[1].content,
           Len(the_book[1].content) - Len(contents.st) + 1, Len(the_book[1].content))

\* C9: whatever the completion order of the lookups, the collector returns the
\* ResourceRefs in first-occurrence order of their relative paths, each with
\* the media type and absolute URL of its own path; whatever the completion
\* order of the fetches, each content is appended under the relative path of
\* its own ResourceRef, in resource-list order.
C9_CompletionOrderIrrelevant ==
    /\ pc = "logo" =>
          LET res == global.resources
              html == global.html_element
          IN  /\ {res[i].relative_url : i \in 1..Len(res)} = Range(target_urls(html))
              /\ \A i, j \in 1..Len(res) :
                    i < j => FirstOccurrence(html, res[i].relative_url)
                               < FirstOccurrence(html, res[j].relative_url)
              /\ \A i \in 1..Len(res) :
                    /\ res[i].absolute_url = document_dir \o res[i].relative_url
                    /\ res[i].media_type = ServerType(res[i].absolute_url)
    /\ pc \in {"finalize", "done"} =>
          LET fetched == {i \in 1..Len(global.resources) :
                             Truthy(global.resources[i].absolute_url)}
          IN  /\ Len(FetchedEntries) = Cardinality(fetched)
              /\ \A k \in 1..Len(FetchedEntries) :
                    \E i \in fetched :
                       /\ Cardinality({j \in fetched : j < i}) = k - 1
                       /\ FetchedEntries[k].path = global.resources[i].relative_url
                       /\ FetchedEntries[k].content
                            = ServerBytes(global.resources[i].absolute_url)

C9_Witness ==
    /\ pc = "done"
    /\ Len(types.st) = 2
    /\ types.val[1] # types.val[2]
    /\ Len(contents.st) >= 2

(***************************************************************************)
(* Resolver runs (SpecCss): css.extract applied to two documents with the  *)
(* same tree whose specStatus values differ at most in letter case.        *)
(***************************************************************************)
\* The longest document of a resolver run, in elements.
MaxCssElems == 2

\* The calls of css.extract on one document.
MaxCalls == 2

CssPool ==
    { W3C_css_link,
      Elem("link", "stylesheet", "", TRUE, Rel("local.css")),
      Elem("link", "stylesheet", "", FALSE, <<>>),
      Elem("link", "alternate", "", TRUE,
           Abs("https", "www.w3.org", "/StyleSheets/TR/2016/W3C-REC")),
      Elem("img", "", "", TRUE, Rel("fig.png")) }

CssDocuments == UNION {[1..n -> CssPool] : n \in 0..MaxCssElems}

CssStatuses ==
    {<<>>} \cup
    {<<Chars(s)>> : s \in
        {"ED", "WD", "CR", "PR", "PER", "REC", "RSCND", "OBSL", "SPSD",
         "UNOFFICIAL", "FPWD", "LC", "FPWD-NOTE", "WG-NOTE",
         "BG-DRAFT", "BG-FINAL", "CG-DRAFT", "CG-FINAL",
         "rec", "wd", "unofficial", "cg-draft", "Cg-Draft", "base", "MO"}}

SameUpToCase(s1, s2) ==
    \/ s1 = <<>> /\ s2 = <<>>
    \/ s1 # <<>> /\ s2 # <<>> /\ toUpperCase(s1[1]) = toUpperCase(s2[1])

CssRun(html, specStatus) ==
    [html0 |-> html, html |-> html, specStatus |-> specStatus,
     outs |-> <<>>, threw |-> <<>>]

InitCss ==
    /\ IdleProc /\ IdleCollected /\ IdleBook /\ IdleLib
    /\ \E d \in CssDocuments, s1 \in CssStatuses, s2 \in CssStatuses :
          /\ SameUpToCase(s1, s2)
          /\ css = <<CssRun(d, s1), CssRun(d, s2)>>

\* css.extract(global) on document r.
css_extract(r) ==
    /\ Len(css[r].outs) < MaxCalls
    /\ LET e == extract(css[r].html, css[r].specStatus)
       IN css' = [css EXCEPT ![r] = [@ EXCEPT !.html = e.html,
                                              !.outs = Append(@, e.retval),
                                              !.threw = Append(@, e.threw)]]
    /\ UNCHANGED <<procVars, collected, book, libVars>>

NextCss == \E r \in DOMAIN css : css_extract(r)

SpecCss == InitCss /\ [][NextCss]_vars

HasW3CLink(html) == \E i \in 1..Len(html) : html[i] = W3C_css_link

RelativeUrls(resources) == [i \in 1..Len(resources) |-> resources[i].relative_url]

\* C5: for a status S of the regular set on a document with the W3C
\* stylesheet link, css.extract registers exactly the base stylesheet, the
\* logo StyleSheets/TR/2016/logos/S.svg and the generated epub.css, and no
\* watermark.
C5_RegularStatusResources ==
    \A r \in DOMAIN css :
        (/\ css[r].outs # <<>>
         /\ HasW3CLink(css[r].html0)
         /\ css[r].specStatus # <<>>
         /\ Join(css[r].specStatus[1]) \in
               {"ED", "WD", "CR", "PR", "PER", "REC", "RSCND", "OBSL", "SPSD"})
        => LET out == css[r].outs[1]
           IN  /\ ~css[r].threw[1]
               /\ RelativeUrls(out) =
                    <<"StyleSheets/TR/2016/base.css",
                      "StyleSheets/TR/2016/logos/" \o Join(css[r].specStatus[1]) \o ".svg",
                      "StyleSheets/TR/2016/epub.css">>
               /\ out[1].absolute_url = "https://www.w3.org/StyleSheets/TR/2016/base.css"
               /\ out[1].media_type = "text/css" /\ out[1].text_content = <<>>
               /\ out[2].absolute_url = "https://www.w3.org/" \o out[2].relative_url
               /\ out[2].text_content = <<>>
               /\ out[3].absolute_url = Undefined /\ out[3].text_content # <<>>
               /\ \A i \in 1..Len(out) :
                     out[i].relative_url # "StyleSheets/TR/2016/logos/UD-watermark.png"

C5_Witness ==
    /\ css[1].outs # <<>> /\ HasW3CLink(css[1].html0)
    /\ css[1].specStatus = <<Chars("REC")>>
    /\ Len(css[1].outs[1]) = 3

\* C6: for a status of the explicit mapping, css.extract registers the
\* watermark exactly when the entry's watermark flag is true, the logo with
\* the entry's name and media type, and epub.css made from the entry's
\* template (the generic background template when it has none); CG-DRAFT
\* yields the watermark, an image/png logo and the template with the 160px
\* padding rules.
C6_ExplicitStatusResources ==
    \A r \in DOMAIN css :
        (/\ css[r].outs # <<>>
         /\ HasW3CLink(css[r].html0)
         /\ css[r].specStatus # <<>>
         /\ Join(css[r].specStatus[1]) \in DOMAIN specStatus_css)
        => LET out   == css[r].outs[1]
               entry == specStatus_css[Join(css[r].specStatus[1])]
               logos == {i \in 1..Len(out) : out[i].relative_url =
                            "StyleSheets/TR/2016/logos/" \o entry.logo_name}
               marks == {i \in 1..Len(out) : out[i].relative_url =
                            "StyleSheets/TR/2016/logos/UD-watermark.png"}
               epubs == {i \in 1..Len(out) : out[i].relative_url =
                            "StyleSheets/TR/2016/epub.css"}
           IN  /\ (marks # {}) <=> entry.watermark
               /\ Cardinality(logos) = 1
               /\ \A i \in logos :
                     entry.logo_media_type # Undefined
                        => out[i].media_type = entry.logo_media_type
               /\ Cardinality(epubs) = 1
               /\ \A i \in epubs :
                     /\ LOGO \notin Range(out[i].text_content)
                     /\ entry.logo_name \in Range(out[i].text_content)
                     /\ \A t \in Range(IF entry.special_template = <<>>
                                       THEN background_template
                                       ELSE entry.special_template) :
                           t # LOGO => t \in Range(out[i].text_content)
                     /\ Len(out[i].text_content) =
                          Len(IF entry.special_template = <<>>
                              THEN background_template ELSE entry.special_template)
               /\ Join(css[r].specStatus[1]) = "CG-DRAFT" =>
                     /\ marks # {}
                     /\ \A i \in logos : out[i].media_type = "image/png"
                     /\ \A i \in epubs :
                           {"@media screen and (min-width:28em){body{padding-left:160px}}",
                            "@media screen{body.toc-sidebar #toc{padding-top:160px}}"}
                              \subseteq Range(out[i].text_content)

C6_Witness ==
    /\ css[1].outs # <<>> /\ HasW3CLink(css[1].html0)
    /\ css[1].specStatus = <<Chars("CG-DRAFT")>>
    /\ Len(css[1].outs[1]) = 4

\* C7: two documents whose specStatus values differ only in letter case make
\* css.extract register the same resources and the same generated CSS.
C7_StatusLookupIgnoresCase ==
    (css # <<>> /\ Len(css[1].outs) >= 1 /\ Len(css[2].outs) >= 1) =>
        /\ css[1].outs[1] = css[2].outs[1]
        /\ css[1].threw[1] = css[2].threw[1]

(***************************************************************************)
(* Collector runs (SpecCollector): get_extra_resources called again and    *)
(* again on one document, nothing else touching the document in between.   *)
(***************************************************************************)
\* The calls of get_extra_resources on the document.
MaxRuns == 2

InitCollector ==
    /\ \E d \in Documents :
          /\ server = [html |-> d, config |-> <<>>]
          /\ global = [NoGlobal EXCEPT !.html_element = d]
    /\ pc = "collect"
    /\ types = Batch(0) /\ contents = Batch(0)
    /\ the_book = <<>> /\ requests = <<>>
    /\ outcome = [state |-> "pending", error |-> ""]
    /\ IdleCollected /\ IdleCss /\ IdleBook /\ IdleLib

\* Lines 261-269: every lookup has resolved and the call returns its list.
get_extra_resources_return_to_caller ==
    /\ pc = "lookups"
    /\ promise_all_resolved(types)
    /\ collected' = Append(collected,
                           get_extra_resources_return(global.html_element, types.val))
    /\ pc' = IF Len(collected) + 1 < MaxRuns THEN "collect" ELSE "collected"
    /\ UNCHANGED <<server, global, types, contents, the_book, requests, outcome, css, book, libVars>>

NextCollector ==
    \/ get_extra_resources_call
    \/ \E i \in DOMAIN types.st : fetch_type_settle(i)
    \/ get_extra_resources_return_to_caller

SpecCollector == InitCollector /\ [][NextCollector]_vars

\* C10: two successive calls of get_extra_resources on the same document,
\* with the same media type responses, return the same ResourceRef list, and
\* the document tree is left unchanged.
C10_CollectorIdempotent ==
    /\ global.html_element = server.html
    /\ \A i, j \in 1..Len(collected) : collected[i] = collected[j]

C10_Witness ==
    /\ Len(collected) = 2
    /\ Len(collected[2]) = 2
    /\ collected[2][1].media_type # collected[2][2].media_type

(***************************************************************************)
(* The collection run (SpecBook): create_epub of src/dist/clib/convert.js. *)
(* book = [pc, data, print_package, promises, the_book, ocf, stored,       *)
(* outcome].  Chapter, create_opf, the collection's cover and navigation   *)
(* pages and store_manifest_items are not in the source tree at hand and   *)
(* are modelled as the specification describes them.                       *)
(***************************************************************************)
\* The longest chapter list of a collection configuration.
MaxChapters == 3

\* What the single document run of a chapter URL yields: its editors, its
\* date and the content items of its spine.
ChapterPool ==
    { [url |-> "https://www.example.org/a/", editors |-> <<"Ann, W3C", "Bob, W3C">>,
       date |-> "2021-01-01", items |-> <<"Overview.xhtml">>],
      [url |-> "https://www.example.org/b/", editors |-> <<"Bob, W3C">>,
       date |-> "2021-06-01", items |-> <<"Overview.xhtml", "annex.xhtml">>],
      [url |-> "https://www.example.org/c/", editors |-> <<"Cy, W3C">>,
       date |-> "2020-12-31", items |-> <<"Overview.xhtml">>] }

ChapterOfUrl(url) == CHOOSE c \in ChapterPool : c.url = url

\* The configurations the server can hold: title, name and the chapters.
BookConfigurations ==
    {[title |-> "Book", name |-> "book",
      chapters |-> [i \in DOMAIN f |-> [url |-> f[i].url, respec |-> FALSE]]] :
        f \in UNION {[1..m -> ChapterPool] : m \in 0..MaxChapters}}

\* new Chapter(chapter_data, first).initialize(): the chapter of the URL.
Chapter(chapter_data, first) ==
    [url |-> chapter_data.url, first |-> first,
     editors |-> ChapterOfUrl(chapter_data.url).editors,
     date |-> ChapterOfUrl(chapter_data.url).date,
     items |-> ChapterOfUrl(chapter_data.url).items]

\* The directory of the k-th chapter of the book in the collection.
chapter_dir(k) == "chapter_" \o ToString(k - 1) \o "/"

\* opf.create_opf(the_book): the spine is the cover, the navigation file,
\* then the content items of every chapter, in chapter order.
create_opf(b) ==
    [title |-> b.title, editors |-> b.editors, date |-> b.date,
     spine |-> <<"cover.xhtml", "nav.xhtml">> \o
               flatten([k \in 1..Len(b.chapters) |->
                          [i \in 1..Len(b.chapters[k].items) |->
                              chapter_dir(k) \o b.chapters[k].items[i]]])]

\* chapter.store_manifest_items(the_book) for the k-th chapter: its entries
\* are copied under its directory.
store_manifest_items(ocf, b, k) ==
    OCF_append_all(ocf,
        [i \in 1..Len(b.chapters[k].items) |->
            [content |-> <<"copy of " \o b.chapters[k].url \o b.chapters[k].items[i]>>,
             path |-> chapter_dir(k) \o b.chapters[k].items[i]]])

RECURSIVE store_all(_, _, _)
\* Lines 103-105: the_book.chapters.forEach(store_manifest_items).
store_all(ocf, b, k) ==
    IF k > Len(b.chapters) THEN ocf
    ELSE store_all(store_manifest_items(ocf, b, k), b, k + 1)

\* ISO dates of one length compare, as strings, as their digits do.
DateNumber(d) ==
    CASE d = "2020-12-31" -> 20201231
      [] d = "2021-01-01" -> 20210101
      [] d = "2021-06-01" -> 20210601

\* A reduction that keeps the last date whatever the comparison says.
reduce_last(acc, rest) == IF rest = <<>> THEN acc ELSE rest[Len(rest)]

RECURSIVE reduce_max(_, _)
\* Line 57: dates.reduce((acc, cur) => acc > cur ? acc : cur)
reduce_max(acc, rest) ==
    IF rest = <<>> THEN acc
    ELSE reduce_max(IF DateNumber(acc) > DateNumber(Head(rest)) THEN acc ELSE Head(rest),
                    Tail(rest))

InitBook ==
    /\ IdleProc /\ IdleCollected /\ IdleCss /\ IdleLib
    /\ \E c \in BookConfigurations, p \in BOOLEAN :
          book = [pc |-> "start", data |-> c, print_package |-> p,
                  promises |-> Batch(0), the_book |-> <<>>, opf |-> <<>>,
                  returned |-> <<>>, failed |-> 0, outcome |-> "pending"]

\* Line 86: fetch_json(config_url) is called and awaited.
create_epub_call ==
    /\ book # <<>> /\ book.pc = "start"
    /\ book' = [book EXCEPT !.pc = "fetch_json"]
    /\ UNCHANGED <<procVars, collected, css, libVars>>

\* Lines 86-90 and 49: the configuration arrives, or the fetch rejects; one
\* Chapter per entry is created and initialized.
fetch_json_settle ==
    /\ book # <<>> /\ book.pc = "fetch_json"
    /\ \E ok \in BOOLEAN :
         book' = IF ok
                 THEN [book EXCEPT !.pc = "chapters",
                                   !.promises = Batch(Len(book.data.chapters))]
                 ELSE [book EXCEPT !.pc = "rejected", !.outcome = "rejected"]
    /\ UNCHANGED <<procVars, collected, css, libVars>>

\* The single document run of chapter i ends: with the chapter, or rejected,
\* which rejects the Promise.all, generate_book_data and create_epub.
chapter_initialize_settle(i) ==
    /\ book # <<>> /\ book.pc = "chapters"
    /\ book.promises.st[i] = "pending"
    /\ \E ok \in BOOLEAN :
         book' = IF ok
                 THEN [book EXCEPT !.promises =
                          promise_all_settle(@, i, Chapter(book.data.chapters[i], i = 1))]
                 ELSE [book EXCEPT !.promises.st[i] = "failed",
                                   !.pc = "rejected", !.outcome = "rejected"]
    /\ UNCHANGED <<procVars, collected, css, libVars>>

\* Lines 51-66: every chapter is there; the book skeleton.  reduce() of an
\* empty array without an initial value throws a TypeError.
generate_book_data_return ==
    /\ book # <<>> /\ book.pc = "chapters"
    /\ promise_all_resolved(book.promises)
    /\ LET chapters == book.promises.val
           editors  == flatten([k \in 1..Len(chapters) |-> chapters[k].editors])
           dates    == [k \in 1..Len(chapters) |-> chapters[k].date]
       IN IF dates = <<>>
          THEN book' = [book EXCEPT !.pc = "rejected", !.outcome = "rejected"]
          ELSE book' = [book EXCEPT
                  !.pc = "opf",
                  !.the_book = <<[title |-> book.data.title, name |-> book.data.name,
                                  editors |-> uniq(editors),
                                  date |-> reduce_max(Head(dates), Tail(dates)),
                                  ocf |-> OCF_new(book.data.name \o ".epub"),
                                  chapters |-> chapters]>>]
    /\ UNCHANGED <<procVars, collected, css, libVars>>

\* Lines 93-101: the package file; with print_package it is printed and {}
\* is returned, otherwise it is stored with the cover and navigation pages.
create_epub_opf ==
    /\ book # <<>> /\ book.pc = "opf"
    /\ LET b == book.the_book[1]
       IN IF book.print_package
          THEN book' = [book EXCEPT !.pc = "done", !.outcome = "resolved",
                                    !.opf = <<create_opf(b)>>,
                                    !.returned = <<>>]
          ELSE book' = [book EXCEPT
                  !.pc = "store",
                  !.opf = <<create_opf(b)>>,
                  !.the_book = <<[b EXCEPT !.ocf =
                      OCF_append(
                        OCF_append(
                          OCF_append(b.ocf, <<"<package>">>, "package.opf"),
                          <<"<cover>">>, "cover.xhtml"),
                        <<"<nav>">>, "nav.xhtml")]>>]
    /\ UNCHANGED <<procVars, collected, css, libVars>>

\* The container after the chapters before chapter k have stored their items.
stored_before(b, k) ==
    store_all(b.ocf, [b EXCEPT !.chapters = SubSeq(@, 1, k - 1)], 1)

\* Lines 103-106: every chapter stores its items, one chapter after the
\* other, and the OCF is returned; an exception thrown by the copy of
\* chapter `thrown` leaves forEach and rejects create_epub.
create_epub_store ==
    /\ book # <<>> /\ book.pc = "store"
    /\ LET b == book.the_book[1]
       IN \E thrown \in 0..Len(b.chapters) :
            book' = IF thrown = 0
                    THEN [book EXCEPT
                            !.pc = "done", !.outcome = "resolved",
                            !.the_book = <<[b EXCEPT !.ocf = store_all(b.ocf, b, 1)]>>,
                            !.returned = <<store_all(b.ocf, b, 1)>>]
                    ELSE [book EXCEPT
                            !.pc = "rejected", !.outcome = "rejected",
                            !.failed = thrown,
                            !.the_book = <<[b EXCEPT !.ocf = stored_before(b, thrown)]>>]
    /\ UNCHANGED <<procVars, collected, css, libVars>>

NextBook ==
    \/ create_epub_call
    \/ fetch_json_settle
    \/ \E i \in DOMAIN book.promises.st : chapter_initialize_settle(i)
    \/ generate_book_data_return
    \/ create_epub_opf
    \/ create_epub_store

SpecBook == InitBook /\ [][NextBook]_vars

RECURSIVE SumItems(_)
SumItems(chapters) ==
    IF chapters = <<>> THEN 0
    ELSE Len(ChapterOfUrl(Head(chapters).url).items) + SumItems(Tail(chapters))

\* The paths of the chapter entries copied into the collection container.
CopiedPaths(ocf) == [i \in 1..(Len(ocf.content) - 5) |-> ocf.content[i + 5].path]

\* C3: for a collection of n chapters the merged spine has (sum of the
\* chapters' content item counts) + 2 entries, and the order of the chapters
\* in the book, in the spine and in the copy into the collection container is
\* the order of the configuration's chapters list, whatever the order in
\* which the chapter runs complete.
C3_ChapterOrderAndSpine ==
    (book # <<>> /\ book.opf # <<>>) =>
        LET b    == book.the_book[1]
            conf == book.data.chapters
        IN  /\ Len(book.opf[1].spine) = SumItems(conf) + 2
            /\ Len(b.chapters) = Len(conf)
            /\ \A k \in 1..Len(conf) : b.chapters[k].url = conf[k].url
            /\ \A k \in 1..Len(conf) : b.chapters[k].first = (k = 1)
            /\ SubSeq(book.opf[1].spine, 1, 2) = <<"cover.xhtml", "nav.xhtml">>
            /\ \A k \in 1..Len(conf) :
                  \A i \in 1..Len(ChapterOfUrl(conf[k].url).items) :
                     book.opf[1].spine[2 + SumItems(SubSeq(conf, 1, k - 1)) + i]
                       = chapter_dir(k) \o ChapterOfUrl(conf[k].url).items[i]
            /\ book.returned # <<>> =>
                  /\ Len(CopiedPaths(book.returned[1])) = SumItems(conf)
                  /\ \A k \in 1..Len(conf) :
                        \A i \in 1..Len(ChapterOfUrl(conf[k].url).items) :
                           book.returned[1].content[5 + SumItems(SubSeq(conf, 1, k - 1)) + i]
                             = [path |-> chapter_dir(k) \o ChapterOfUrl(conf[k].url).items[i],
                                compressed |-> TRUE,
                                content |-> <<"copy of " \o conf[k].url
                                               \o ChapterOfUrl(conf[k].url).items[i]>>]

C3_Witness ==
    /\ book # <<>> /\ book.pc = "done" /\ book.returned # <<>>
    /\ Len(book.data.chapters) = 3
    /\ book.data.chapters[1].url # book.data.chapters[2].url
    /\ book.data.chapters[2].url # book.data.chapters[3].url
    /\ Len(book.opf[1].spine) = 6

\* The dates of the chapters the configuration lists.
ConfiguredDates ==
    {ChapterOfUrl(book.data.chapters[k].url).date : k \in DOMAIN book.data.chapters}

\* C11: the book's date is the maximum of the chapters' dates, for every
\* non-empty chapter list and whatever the order of the chapters is.
C11_BookDateIsMaximum ==
    (book # <<>> /\ book.the_book # <<>>) =>
        /\ book.the_book[1].date \in ConfiguredDates
        /\ \A d \in ConfiguredDates :
              DateNumber(book.the_book[1].date) >= DateNumber(d)

C11_Witness ==
    /\ book # <<>> /\ book.the_book # <<>>
    /\ Len(book.data.chapters) = 2
    /\ ChapterOfUrl(book.data.chapters[1].url).date = "2021-06-01"
    /\ ChapterOfUrl(book.data.chapters[2].url).date = "2021-01-01"
    /\ book.the_book[1].date = "2021-06-01"

(***************************************************************************)
(* The fetch module (SpecFetch): one call of fetch_resource, fetch_type or *)
(* fetch_html (src/unnamed/part_000).  An address is kept as what          *)
(* url.parse reads from it, [protocol, hostname, port, wellformed]:        *)
(* protocol and port are Null when absent, port is a string of digits,     *)
(* wellformed says whether the characters of the address make a valid URI. *)
(* fetcher = [fn, address, env, st, sent, value, error].                   *)
(***************************************************************************)
Protocols == {Null, "http:", "https:", "ftp:", "file:"}

Hostnames == {"www.example.org", "localhost"}

Ports == {Null, "80", "1024", "1025", "8001"}

Addresses ==
    [protocol : Protocols, hostname : Hostnames, port : Ports, wellformed : BOOLEAN]

\* process.env: R2EPUB_LOCAL is not set, or set to some value.
Environments == [R2EPUB_LOCAL : {<<>>, <<"">>, <<"1">>}]

\* Number(parsed.port) of a string of digits.
Number(port) ==
    CASE port = "80"   -> 80
      [] port = "1024" -> 1024
      [] port = "1025" -> 1025
      [] port = "8001" -> 8001

\* validUrl.isWebUri(address): the address when it is a well formed http or
\* https URI, undefined otherwise.
isWebUri(address) ==
    IF address.wellformed /\ address.protocol \in {"http:", "https:"}
    THEN <<address>> ELSE <<>>

\* A check that accepts every port.
check_Web_url_any_port(address) ==
    IF address.protocol = Null
    THEN [threw |-> TRUE, error |-> "Invalid URL: no protocol", retval |-> <<>>]
    ELSE IF address.protocol \notin {"http:", "https:"}
    THEN [threw |-> TRUE, error |-> "URL is not dereferencable", retval |-> <<>>]
    ELSE IF isWebUri(address) = <<>>
    THEN [threw |-> TRUE, error |-> "the URL isn't valid", retval |-> <<>>]
    ELSE [threw |-> FALSE, error |-> "", retval |-> isWebUri(address)]

\* check_Web_url(address), lines 79-108.  The error thrown for a port that
\* is too low is caught by the catch around the port check and thrown again
\* with the other message (lines 96-104).
check_Web_url(address) ==
    IF address.protocol = Null
    THEN [threw |-> TRUE, error |-> "Invalid URL: no protocol", retval |-> <<>>]
    ELSE IF address.protocol \notin {"http:", "https:"}
    THEN [threw |-> TRUE, error |-> "URL is not dereferencable", retval |-> <<>>]
    ELSE IF isWebUri(address) = <<>>
    THEN [threw |-> TRUE, error |-> "the URL isn't valid", retval |-> <<>>]
    ELSE IF address.port # Null /\ Number(address.port) <= 1024
    THEN [threw |-> TRUE, error |-> "Invalid port number used in URL", retval |-> <<>>]
    ELSE [threw |-> FALSE, error |-> "", retval |-> isWebUri(address)]

\* The media types whose content is returned as text, lines 51-60.
text_content ==
    {"application/json", "application/ld+json", "text/html", "application/xhtml+xml",
     "text/css", "image/svg+xml", "text/javascript", "text/ecmascript"}

\* The content-type headers a response can carry; Null when there is none.
ContentTypes == {Null, "", "text/html", "image/png"}

FetchFunctions == {"fetch_resource", "fetch_type", "fetch_html"}

InitFetch ==
    /\ IdleProc /\ IdleCollected /\ IdleCss /\ IdleBook
    /\ IdleConversion /\ IdleWrapper
    /\ \E fn \in FetchFunctions, a \in Addresses, e \in Environments :
          fetcher = [fn |-> fn, address |-> a, env |-> e, st |-> "start",
                     sent |-> <<>>, value |-> <<>>, error |-> ""]

\* How fetch_html wraps a rejection of fetch_resource, lines 224-226.
fetch_error(fn, error) ==
    IF fn = "fetch_html" THEN "HTML parsing error: " \o error ELSE error

\* Lines 131-136, 185-190 and 220: the URL check, then my_fetch(final_url);
\* an exception of the check rejects the promise.
fetch_call ==
    /\ fetcher # <<>> /\ fetcher.st = "start"
    /\ LET checked == check_Web_url(fetcher.address)
       IN fetcher' =
            IF checked.threw
            THEN [fetcher EXCEPT !.st = "rejected",
                                 !.error = fetch_error(fetcher.fn, checked.error)]
            ELSE [fetcher EXCEPT !.st = "pending", !.sent = Append(@, checked.retval[1])]
    /\ UNCHANGED <<procVars, collected, css, book, conversion, wrapper>>

\* What the promise resolves with for an ok response of a content type.
fetch_value(fn, type) ==
    CASE fn = "fetch_type" -> type
      [] fn = "fetch_html" -> "dom"
      [] fn = "fetch_resource" ->
            IF Truthy(type) /\ type \notin text_content THEN "body" ELSE "text"

\* Lines 137-161 and 191-195: the response is ok.
fetch_response_ok ==
    /\ fetcher # <<>> /\ fetcher.st = "pending"
    /\ \E type \in ContentTypes :
          fetcher' = [fetcher EXCEPT !.st = "resolved",
                                     !.value = <<fetch_value(fetcher.fn, type)>>]
    /\ UNCHANGED <<procVars, collected, css, book, conversion, wrapper>>

\* Lines 162-168 and 196-202: the response is not ok, or the request fails.
fetch_response_failed ==
    /\ fetcher # <<>> /\ fetcher.st = "pending"
    /\ \E error \in {"HTTP response", "Problem accessing"} :
          fetcher' = [fetcher EXCEPT !.st = "rejected",
                                     !.error = fetch_error(fetcher.fn, error)]
    /\ UNCHANGED <<procVars, collected, css, book, conversion, wrapper>>

NextFetch ==
    \/ fetch_call
    \/ fetch_response_ok
    \/ fetch_response_failed

SpecFetch == InitFetch /\ [][NextFetch]_vars

\* C12: a URL whose scheme is not http or https, or with an explicit port
\* number <= 1024, is rejected without any network request; a URL for which a
\* request is made has scheme http or https and no port or a port > 1024.
C12_UnsafeUrlsRejected ==
    (fetcher # <<>> /\ fetcher.st # "start") =>
        LET a == fetcher.address
            unsafe == \/ a.protocol \notin {"http:", "https:"}
                      \/ a.port \in {"80", "1024"}
        IN  /\ unsafe => (fetcher.st = "rejected" /\ fetcher.sent = <<>>)
            /\ fetcher.sent # <<>> =>
                  /\ a.protocol \in {"http:", "https:"}
                  /\ a.port \in {Null, "1025", "8001"}
                  /\ fetcher.sent = <<a>>

C12_Witness ==
    /\ fetcher # <<>> /\ fetcher.st = "rejected" /\ fetcher.sent = <<>>
    /\ fetcher.address.protocol = "https:" /\ fetcher.address.wellformed
    /\ fetcher.address.port = "1024"

\* C13: unless R2EPUB_LOCAL is set, every URL on localhost is rejected by the
\* URL check and no request is made for it.
C13_LocalhostNeedsOverride ==
    (/\ fetcher # <<>> /\ fetcher.st # "start"
     /\ fetcher.address.hostname = "localhost"
     /\ fetcher.env.R2EPUB_LOCAL = <<>>) =>
        (fetcher.st = "rejected" /\ fetcher.sent = <<>>)

(***************************************************************************)
(* The entry point (SpecConvert): one call of convert(url, options, t, p)  *)
(* of src/src/index.ts.  conversion = [url, type, t, p, pc, requests,      *)
(* pipelines, outcome, error], where type is the content-type header the   *)
(* server sends for the URL, requests the fetch_type calls made and        *)
(* pipelines the create_epub calls made.                                   *)
(***************************************************************************)
\* The url argument: not given, null, empty, or the URL of a resource.
ConvertUrls ==
    {Undefined, Null, "", "https://www.example.org/book.json",
     "https://www.example.org/doc/index.html"}

\* The content-type header of the server's answer; Null when there is none.
ConvertTypes ==
    {Null, "application/json", "application/json; charset=utf-8",
     "text/html", "text/html; charset=utf-8"}

\* constants.media_types.json (json_media_type of the fetch module).
json_media_type == "application/json"

InitConvert ==
    /\ IdleProc /\ IdleCollected /\ IdleCss /\ IdleBook
    /\ IdleFetcher /\ IdleWrapper
    /\ \E u \in ConvertUrls, ty \in ConvertTypes, t \in BOOLEAN, p \in BOOLEAN :
          conversion = [url |-> u, type |-> ty, t |-> t, p |-> p, pc |-> "start",
                        requests |-> <<>>, pipelines |-> <<>>,
                        outcome |-> "pending", error |-> ""]

\* Lines 92-95 and 102-104: the URL test, then fetch_type(url) is awaited.
convert_call ==
    /\ conversion # <<>> /\ conversion.pc = "start"
    /\ conversion' =
         IF Truthy(conversion.url)
         THEN [conversion EXCEPT !.pc = "fetch_type",
                                 !.requests = Append(@, conversion.url)]
         ELSE [conversion EXCEPT !.pc = "rejected", !.outcome = "rejected",
                  !.error = "No URL has been provided for the conversion"]
    /\ UNCHANGED <<procVars, collected, css, book, fetcher, wrapper>>

\* Lines 96-100: the pipeline chosen for the media type fetch_type gave.
pipeline_of(media_type) ==
    IF media_type = json_media_type
    THEN "cConvert.create_epub" ELSE "RespecToEPUB.create_epub"

\* Lines 95-99: fetch_type resolves with the header and the pipeline is
\* called, or fetch_type rejects and so does convert.
convert_fetch_type_settle ==
    /\ conversion # <<>> /\ conversion.pc = "fetch_type"
    /\ \E ok \in BOOLEAN :
         conversion' =
           IF ok
           THEN [conversion EXCEPT !.pc = "pipeline",
                                   !.pipelines = Append(@, pipeline_of(conversion.type))]
           ELSE [conversion EXCEPT !.pc = "rejected", !.outcome = "rejected",
                                   !.error = "fetch_type"]
    /\ UNCHANGED <<procVars, collected, css, book, fetcher, wrapper>>

\* Lines 97-101: the pipeline's promise settles and convert returns the_ocf
\* or rejects.
convert_pipeline_settle ==
    /\ conversion # <<>> /\ conversion.pc = "pipeline"
    /\ \E ok \in BOOLEAN :
         conversion' =
           IF ok
           THEN [conversion EXCEPT !.pc = "done", !.outcome = "resolved"]
           ELSE [conversion EXCEPT !.pc = "rejected", !.outcome = "rejected",
                                   !.error = "create_epub"]
    /\ UNCHANGED <<procVars, collected, css, book, fetcher, wrapper>>

NextConvert ==
    \/ convert_call
    \/ convert_fetch_type_settle
    \/ convert_pipeline_settle

SpecConvert == InitConvert /\ [][NextConvert]_vars

\* The server says the resource is JSON, with or without parameters.
RefersToJson(type) ==
    type \in {"application/json", "application/json; charset=utf-8"}

\* C14: convert runs at most one pipeline, the collection pipeline when the
\* server reports a JSON content type for the URL (with or without
\* parameters) and the single-document pipeline otherwise; with an empty or
\* missing URL it fails with its message and fetches nothing.
C14_OnePipelineByMediaType ==
    conversion # <<>> =>
        /\ Len(conversion.pipelines) <= 1
        /\ conversion.pc \in {"pipeline", "done"} => Len(conversion.pipelines) = 1
        /\ conversion.pipelines # <<>> =>
              conversion.pipelines[1] =
                 IF RefersToJson(conversion.type)
                 THEN "cConvert.create_epub" ELSE "RespecToEPUB.create_epub"
        /\ (conversion.pc # "start" /\ conversion.url \in {Undefined, Null, ""}) =>
              /\ conversion.outcome = "rejected"
              /\ conversion.error = "No URL has been provided for the conversion"
              /\ conversion.requests = <<>> /\ conversion.pipelines = <<>>

\* The entries of the container that hold a serialized package.
PackageEntries ==
    {i \in 1..Len(the_book[1].content) : the_book[1].content[i].path = "package.opf"}

\* C15: in a single-document run the package is serialized exactly once,
\* after the last add_creators / add_dates / add_manifest_item call, and
\* nothing mutates it afterwards: from the moment the container exists it
\* holds one package entry, which is the serialization of the package as it
\* is now, with a manifest item for every resource of the run.
C15_SerializedOnceAndFrozen ==
    the_book # <<>> =>
        /\ Cardinality(PackageEntries) = 1
        /\ \A i \in PackageEntries :
              the_book[1].content[i].content = serialize(global.package[1])
        /\ \A k \in 1..Len(global.resources) :
              Truthy(global.resources[k].relative_url) =>
                 global.resources[k].relative_url \in Hrefs(global.package[1])
        /\ Len(global.package[1].item) = Len(global.resources)

C15_Witness ==
    /\ the_book # <<>> /\ pc = "done" /\ the_book[1].finalized
    /\ Len(contents.st) >= 2
    /\ global.package[1].creator # <<>>

(***************************************************************************)
(* One PackageWrapper and a sequence of calls of its methods               *)
(* (SpecPackage), src/dist/lib/home.js.  wrapper = [pkg, added, calls,     *)
(* xml]: the object, the creator names given so far in the order given,    *)
(* the number of calls made and what the last serialize() returned.        *)
(***************************************************************************)
\* The calls made on one PackageWrapper.
MaxWrapperCalls == 3

\* The longest list of names given to one add_creators call.
MaxCreators == 2

CreatorNames == {"Ann, W3C", "Bob, W3C"}

CreatorLists == UNION {[1..n -> CreatorNames] : n \in 0..MaxCreators}

ManifestItems ==
    {[href |-> "fig.png", media_type |-> "image/png", id |-> "res_id1",
      properties |-> Undefined],
     [href |-> "nav.xhtml", media_type |-> "application/xhtml+xml", id |-> "nav",
      properties |-> "nav"]}

InitPackage ==
    /\ IdleProc /\ IdleCollected /\ IdleCss /\ IdleBook
    /\ IdleFetcher /\ IdleConversion
    /\ wrapper = [pkg |-> PackageWrapper("https://www.example.org/doc/", "Title"),
                  added |-> <<>>, calls |-> 0, xml |-> <<>>]

\* package.add_creators(creators)
wrapper_add_creators ==
    /\ wrapper # <<>> /\ wrapper.calls < MaxWrapperCalls
    /\ \E creators \in CreatorLists :
          wrapper' = [wrapper EXCEPT !.pkg = add_creators(@, creators),
                                     !.added = @ \o creators,
                                     !.calls = @ + 1]
    /\ UNCHANGED <<procVars, collected, css, book, fetcher, conversion>>

\* package.add_dates(date)
wrapper_add_dates ==
    /\ wrapper # <<>> /\ wrapper.calls < MaxWrapperCalls
    /\ \E date \in {"2021-01-01", "2021-06-01"} :
          wrapper' = [wrapper EXCEPT !.pkg = add_dates(@, date), !.calls = @ + 1]
    /\ UNCHANGED <<procVars, collected, css, book, fetcher, conversion>>

\* package.add_manifest_item(item)
wrapper_add_manifest_item ==
    /\ wrapper # <<>> /\ wrapper.calls < MaxWrapperCalls
    /\ \E item \in ManifestItems :
          wrapper' = [wrapper EXCEPT !.pkg = add_manifest_item(@, item),
                                     !.calls = @ + 1]
    /\ UNCHANGED <<procVars, collected, css, book, fetcher, conversion>>

\* package.serialize()
wrapper_serialize ==
    /\ wrapper # <<>> /\ wrapper.calls < MaxWrapperCalls
    /\ wrapper' = [wrapper EXCEPT !.xml = <<serialize(wrapper.pkg)>>,
                                  !.calls = @ + 1]
    /\ UNCHANGED <<procVars, collected, css, book, fetcher, conversion>>

NextPackage ==
    \/ wrapper_add_creators
    \/ wrapper_add_dates
    \/ wrapper_add_manifest_item
    \/ wrapper_serialize

SpecPackage == InitPackage /\ [][NextPackage]_vars

\* The role refinements of the package that refine the reference ref.
RoleRefinements(pkg, ref) ==
    {i \in 1..Len(pkg.meta) : pkg.meta[i].refines = ref}

\* C16: after any sequence of add_creators calls on one PackageWrapper the
\* k-th creator added overall (k from 0) has id creator_id_k, the ids are
\* pairwise distinct, the creators are in the order added, and each creator
\* has exactly one role refinement of '#creator_id_k' with value 'edt'.
C16_CreatorIdsSequential ==
    wrapper # <<>> =>
        LET pkg == wrapper.pkg
        IN  /\ Len(pkg.creator) = Len(wrapper.added)
            /\ \A k \in 1..Len(pkg.creator) :
                  /\ pkg.creator[k].id = "creator_id_" \o ToString(k - 1)
                  /\ pkg.creator[k].text = wrapper.added[k]
                  /\ Cardinality(RoleRefinements(pkg, "#" \o pkg.creator[k].id)) = 1
                  /\ \A i \in RoleRefinements(pkg, "#" \o pkg.creator[k].id) :
                        pkg.meta[i].property = "role" /\ pkg.meta[i].text = "edt"
            /\ \A j, k \in 1..Len(pkg.creator) :
                  j # k => pkg.creator[j].id # pkg.creator[k].id

C16_Witness ==
    /\ wrapper # <<>> /\ wrapper.calls = 3
    /\ Len(wrapper.pkg.creator) = 4
    /\ wrapper.pkg.creator[1].text = wrapper.pkg.creator[3].text
    /\ wrapper.pkg.creator[4].id = "creator_id_3"
    /\ Len(wrapper.pkg.meta) = 8

\* C17: when the fetched document has no script#initialUserConfig, process()
\* fails with 'User config is not available' before the package is created,
\* before any media-type lookup or document mutation, and no container is
\* created: past the configuration step the run is rejected and has made no
\* request other than the one for the document.
C17_MissingConfigFails ==
    (server.config = <<>> /\ pc \notin {"start", "fetch_html", "config"}) =>
        /\ pc = "rejected" /\ outcome.state = "rejected"
        /\ outcome.error \in {"HTML parsing error", "User config is not available"}
        /\ (global.html_element # <<>>) => outcome.error = "User config is not available"
        /\ requests = <<[fn |-> "fetch_html", url |-> document_url]>>
        /\ global.package = <<>> /\ global.config = <<>> /\ global.resources = <<>>
        /\ global.html_element \in {<<>>, server.html}
        /\ the_book = <<>>
        /\ ~ ENABLED Next

C17_Witness ==
    /\ server.config = <<>> /\ pc = "rejected"
    /\ outcome.error = "User config is not available"
    /\ relative_urls(global.html_element) # <<>>
    /\ css_link_element(global.html_element) # 0

\* The requests of the run made by the function fn, in the order made.
RequestsOf(fn) ==
    SelectIdx(requests, {i \in 1..Len(requests) : requests[i].fn = fn}, 1)

\* C18: the bytes of a ResourceRef are fetched only inside generate_epub: no
\* fetch_resource request is made before the manifest is populated and the
\* package serialized, the discovery of the resources makes media-type
\* lookups only, and the fetches made are those of the resources that have an
\* absolute_url, one each.
C18_BytesFetchedAtContainerWrite ==
    /\ the_book = <<>> => CountRequests("fetch_resource") = 0
    /\ pc \in {"collect", "lookups", "logo", "css", "cover", "nav", "manifest", "epub"} =>
          /\ CountRequests("fetch_resource") = 0
          /\ \A i \in 2..Len(requests) : requests[i].fn = "fetch_type"
    /\ CountRequests("fetch_resource") > 0 =>
          /\ pc \in {"fetches", "finalize", "done", "rejected"}
          /\ \E i \in 1..Len(the_book[1].content) :
                /\ the_book[1].content[i].path = "package.opf"
                /\ the_book[1].content[i].content = serialize(global.package[1])
          /\ \A k \in 1..Len(global.resources) :
                global.resources[k].relative_url \in Hrefs(global.package[1])
          /\ RequestsOf("fetch_resource") =
                [i \in 1..Len(urls(global.resources)) |->
                    [fn |-> "fetch_resource", url |-> urls(global.resources)[i]]]
          /\ \A i, j \in 1..Len(requests) :
                (requests[i].fn = "fetch_resource" /\ requests[j].fn # "fetch_resource")
                   => j < i

C18_Witness ==
    /\ pc = "done"
    /\ CountRequests("fetch_type") >= 1
    /\ CountRequests("fetch_resource") > CountRequests("fetch_type")

\* How many elements of the sequence s satisfy being in the set of values vs.
CountIn(s, vs) == Cardinality({i \in 1..Len(s) : s[i] \in vs})

\* The entries generate_epub appended for the resources: those after the
\* mimetype, the container file, the package and the content document.
ResourceEntries ==
    [i \in 1..(Len(the_book[1].content) - 4) |-> the_book[1].content[i + 4].path]

\* C19: at container-write time every ResourceRef of the run has exactly one
\* of absolute_url and text_content set, so that generate_epub appends each
\* resource to the archive exactly once.
C19_ExactlyOneContentSource ==
    /\ pc \in {"epub", "fetches", "finalize", "done"} =>
          \A k \in 1..Len(global.resources) :
             Truthy(global.resources[k].absolute_url)
                # (global.resources[k].text_content # <<>>)
    /\ pc \in {"finalize", "done"} =>
          /\ Len(ResourceEntries) = Len(global.resources)
          /\ \A k \in 1..Len(global.resources) :
                CountIn(ResourceEntries, {global.resources[k].relative_url})
                   = CountIn([j \in 1..Len(global.resources) |->
                                 global.resources[j].relative_url],
                             {global.resources[k].relative_url})

C19_Witness ==
    /\ pc = "done"
    /\ \E k \in 1..Len(global.resources) :
          /\ global.resources[k].text_content # <<>>
          /\ global.resources[k].relative_url = "StyleSheets/TR/2016/epub.css"
    /\ \E k \in 1..Len(global.resources) :
          /\ Truthy(global.resources[k].absolute_url)
          /\ global.resources[k].relative_url = "fig.png"

\* The document has a stylesheet link whose href has the host www.w3.org.
HasPublisherStylesheet(html) ==
    \E i \in 1..Len(html) :
        /\ html[i].tag = "link" /\ html[i].rel = "stylesheet" /\ html[i].has
        /\ TokField(html[i].val, "host") = <<"www.w3.org">>

\* C20: when the document has no stylesheet link whose host is www.w3.org,
\* css.extract is a no-op whatever the specStatus is (set or not): it returns
\* an empty resource list, does not fail and leaves the document unchanged.
C20_NoPublisherLinkNoOp ==
    css # <<>> =>
        \A r \in DOMAIN css :
            ~ HasPublisherStylesheet(css[r].html0) =>
                /\ css[r].html = css[r].html0
                /\ \A c \in 1..Len(css[r].outs) :
                      css[r].outs[c] = <<>> /\ ~ css[r].threw[c]

C20_Witness ==
    /\ css # <<>>
    /\ Len(css[1].outs) = 2 /\ Len(css[2].outs) = 1
    /\ css[1].specStatus = <<Chars("CG-DRAFT")>> /\ css[2].specStatus = <<Chars("cg-draft")>>
    /\ css[1].html0 = <<Elem("link", "stylesheet", "", TRUE, Rel("local.css")),
                        Elem("link", "alternate", "", TRUE,
                             Abs("https", "www.w3.org", "/StyleSheets/TR/2016/W3C-REC"))>>

\* The element is one of the four (selector, attribute) pairs and its value
\* is not empty, not a fragment only and has no scheme.
IsLocalReference(el) ==
    /\ el.tag \in {"img", "a", "object"} \/ (el.tag = "link" /\ el.rel = "stylesheet")
    /\ el.has /\ el.val # <<>>
    /\ TokField(el.val, "scheme") = <<>>
    /\ TokField(el.val, "path") # <<>>

\* The value of a local reference as written, without its fragment.
WithoutFragment(val) ==
    (IF TokField(val, "host") = <<>> THEN "" ELSE "//" \o TokField(val, "host")[1])
    \o TokField(val, "path")[1]

\* C21: the collector returns exactly the filtered attribute values: every
\* ResourceRef has a non-empty relative_url that is the value of a local
\* reference of the document without its fragment, and an absolute_url that
\* is this path resolved against the document URL; every local reference is
\* represented by exactly one ResourceRef.
C21_CollectorOutputIsFilteredValues ==
    \A c \in 1..Len(collected) :
        LET html == server.html
            refs == collected[c]
        IN  /\ \A k \in 1..Len(refs) :
                  /\ refs[k].relative_url # ""
                  /\ \E i \in 1..Len(html) :
                        /\ IsLocalReference(html[i])
                        /\ refs[k].relative_url = WithoutFragment(html[i].val)
                  /\ refs[k].absolute_url = document_dir \o refs[k].relative_url
            /\ \A i \in 1..Len(html) :
                  IsLocalReference(html[i]) =>
                     Cardinality({k \in 1..Len(refs) :
                                    refs[k].relative_url = WithoutFragment(html[i].val)}) = 1

C21_Witness ==
    /\ Len(collected) >= 1
    /\ server.html = <<Elem("a", "", "", TRUE, <<Tok("path", "fig.png"), Tok("hash", "sec")>>),
                       Elem("img", "", "", TRUE, Rel("fig.png"))>>
    /\ Len(collected[1]) = 1

\* The statuses whose mapping entry gives no logo media type.
NoLogoMediaType ==
    {"ED", "WD", "CR", "PR", "PER", "REC", "RSCND", "OBSL", "SPSD",
     "FPWD", "LC", "FPWD-NOTE", "WG-NOTE"}

\* C22: when the status mapping entry gives no logo media type, the logo
\* ResourceRef registered by css.extract carries the SVG media type
\* image/svg+xml, the one the W3C logo of the document gets.
C22_DefaultLogoMediaTypeIsSvg ==
    \A r \in DOMAIN css :
        (/\ css[r].outs # <<>>
         /\ HasW3CLink(css[r].html0)
         /\ css[r].specStatus # <<>>
         /\ Join(css[r].specStatus[1]) \in NoLogoMediaType)
        => \A k \in 1..Len(css[r].outs[1]) :
              css[r].outs[1][k].relative_url \notin
                 {"StyleSheets/TR/2016/base.css", "StyleSheets/TR/2016/epub.css",
                  "StyleSheets/TR/2016/logos/UD-watermark.png"}
              => css[r].outs[1][k].media_type = "image/svg+xml"

\* How many resources of the run have the relative path p.
CountPath(p) ==
    Cardinality({k \in 1..Len(global.resources) : global.resources[k].relative_url = p})

\* The entries of the container that hold the transformed document.
DocumentEntries ==
    {i \in 1..Len(the_book[1].content) : the_book[1].content[i].path = "Overview.xhtml"}

\* C24: in process() the cover builder and the navigation builder each run
\* exactly once, after css.extract has returned and before the first
\* add_manifest_item call; convert_dom runs exactly once, after all document
\* mutations (logo src, stylesheet link rewrite and append).
C24_BuildersAndTransformerOrder ==
    /\ pc \in {"collect", "lookups", "logo", "css"} =>
          CountPath("cover.xhtml") = 0 /\ CountPath("nav.xhtml") = 0
    /\ pc = "cover" => CountPath("cover.xhtml") = 0 /\ CountPath("nav.xhtml") = 0
    /\ pc = "nav" => CountPath("cover.xhtml") = 1 /\ CountPath("nav.xhtml") = 0
    /\ pc \in {"manifest", "epub", "fetches", "finalize", "done"} =>
          CountPath("cover.xhtml") = 1 /\ CountPath("nav.xhtml") = 1
    /\ pc \in {"cover", "nav", "manifest"} =>
          /\ global.package[1].item = <<>>
          /\ HasPublisherStylesheet(server.html) =>
                CountPath("StyleSheets/TR/2016/base.css") >= 1
          /\ css_link_element(server.html) # 0 =>
                global.html_element[css_link_element(server.html)].val
                   = Rel("StyleSheets/TR/2016/base.css")
    /\ the_book # <<>> =>
          /\ Cardinality(DocumentEntries) = 1
          /\ \A i \in DocumentEntries :
                the_book[1].content[i].content = convert_dom(global.html_element)
          /\ logo_element(server.html) # 0 =>
                global.html_element[logo_element(server.html)].val
                   = Rel("StyleSheets/TR/2016/logos/W3C.svg")
          /\ css_link_element(server.html) # 0 =>
                global.html_element[css_link_element(server.html)].val
                   = Rel("StyleSheets/TR/2016/base.css")
          /\ CountPath("StyleSheets/TR/2016/epub.css") >= 1 =>
                global.html_element[Len(global.html_element)].val
                   = Rel("StyleSheets/TR/2016/epub.css")

C24_Witness ==
    /\ pc = "done"
    /\ logo_element(server.html) # 0 /\ css_link_element(server.html) # 0
    /\ CountPath("StyleSheets/TR/2016/epub.css") = 1
    /\ Len(global.html_element) = Len(server.html) + 1

\* The manifest items of the package that have the id.
ItemsWithId(pkg, id) == {i \in 1..Len(pkg.item) : pkg.item[i].id = id}

\* C25: at serialization time no two manifest items share an @id, and each
\* spine itemref ('start', then 'main') refers to the @id of exactly one
\* manifest item.
C25_ManifestIdsAndSpine ==
    AfterManifest =>
        LET pkg == global.package[1]
        IN  /\ \A i, j \in 1..Len(pkg.item) : i # j => pkg.item[i].id # pkg.item[j].id
            /\ pkg.itemref = <<"start", "main">>
            /\ \A r \in 1..Len(pkg.itemref) :
                  Cardinality(ItemsWithId(pkg, pkg.itemref[r])) = 1

\* The editors of the chapters, chapter after chapter.
AllEditors(chapters) == flatten([k \in 1..Len(chapters) |-> chapters[k].editors])

\* The position of the first occurrence of a value in a sequence.
FirstIndex(s, v) == CHOOSE i \in 1..Len(s) : s[i] = v /\ \A j \in 1..(i-1) : s[j] # v

\* C26: the editor list of the book is the union of the chapters' editor
\* lists, without duplicates (string equality), in the order of first
\* occurrence over the chapters in book order.
C26_BookEditorsAreUnionInFirstOrder ==
    (book # <<>> /\ book.the_book # <<>>) =>
        LET b   == book.the_book[1]
            all == AllEditors(b.chapters)
        IN  /\ Range(b.editors) = Range(all)
            /\ \A i, j \in 1..Len(b.editors) : i # j => b.editors[i] # b.editors[j]
            /\ \A i, j \in 1..Len(b.editors) :
                  i < j => FirstIndex(all, b.editors[i]) < FirstIndex(all, b.editors[j])

\* A book whose second chapter repeats an editor of the first after a
\* chapter with another editor first: Bob, then Ann and Bob again.
C26_Witness ==
    /\ book # <<>> /\ book.the_book # <<>>
    /\ AllEditors(book.the_book[1].chapters) = <<"Bob, W3C", "Ann, W3C", "Bob, W3C">>
    /\ book.the_book[1].editors = <<"Bob, W3C", "Ann, W3C">>

\* Some request of the batch has not settled yet.
InFlight(b) == \E i \in DOMAIN b.st : b.st[i] = "pending"

\* C27: while a media-type lookup or a resource fetch of a batch is still
\* pending, no step changes the resource list, the package or the container:
\* ResourceRefs are built from the lookups, and fetched contents are appended,
\* only in a step taken when the whole batch has settled.
C27_MutationOnlyAfterBarrier ==
    [][(InFlight(types) \/ InFlight(contents)) =>
          /\ global'.resources = global.resources
          /\ global'.package = global.package
          /\ the_book' = the_book]_<<global, the_book>>

\* A fetch batch with one content arrived and another still in flight, the
\* container holding no fetched entry yet.
C27_Witness ==
    /\ pc = "fetches"
    /\ \E i, j \in DOMAIN contents.st : contents.st[i] = "ok" /\ contents.st[j] = "pending"
    /\ Len(the_book[1].content) = 4 + Len(text_resources(global.resources))

\* The resources of the run that are to be fetched from a fixed address: the
\* ones whose absolute_url is not their relative_url resolved against the
\* document.
FixedResources ==
    {i \in 1..Len(global.resources) :
        /\ global.resources[i].absolute_url # Undefined
        /\ global.resources[i].absolute_url # url_resolve(global.resources[i].relative_url)}

\* C28: every resource registered by the fixed-resource steps (the W3C logo,
\* the base stylesheet, the status logo, the watermark) is fetched from
\* 'https://www.w3.org/' followed by its relative_url.
C28_FixedResourcesAreCanonical ==
    \A i \in FixedResources :
        global.resources[i].absolute_url =
            "https://www.w3.org/" \o global.resources[i].relative_url

\* The document has exactly one stylesheet link to www.w3.org.
OneW3CLink(html) == Cardinality({i \in 1..Len(html) : html[i] = W3C_css_link}) = 1

\* The links of the document to the path.
LinksTo(html, path) ==
    {i \in 1..Len(html) : html[i].tag = "link" /\ html[i].has /\ html[i].val = Rel(path)}

\* How many of the resources returned by all the calls have the path.
Registered(outs, path) ==
    Cardinality({<<c, i>> \in (1..Len(outs)) \X (1..3) :
                    i <= Len(outs[c]) /\ outs[c][i].relative_url = path})

\* C29: on a document with one W3C stylesheet link the second call of
\* css.extract returns no resources, does not throw and leaves the document
\* as the first call left it; over both calls the base stylesheet and
\* epub.css are registered at most once and the document has at most one link
\* to StyleSheets/TR/2016/epub.css.
C29_ExtractIsIdempotent ==
    /\ [](\A r \in DOMAIN css :
            OneW3CLink(css[r].html0) =>
               /\ Registered(css[r].outs, "StyleSheets/TR/2016/base.css") <= 1
               /\ Registered(css[r].outs, "StyleSheets/TR/2016/epub.css") <= 1
               /\ Cardinality(LinksTo(css[r].html, "StyleSheets/TR/2016/epub.css")) <= 1)
    /\ [][\A r \in DOMAIN css :
            (OneW3CLink(css[r].html0) /\ Len(css[r].outs) = 1 /\ Len(css'[r].outs) = 2) =>
               /\ css'[r].outs[2] = <<>>
               /\ ~ css'[r].threw[2]
               /\ css'[r].html = css[r].html]_css

\* Two calls on a document whose only element is the W3C stylesheet link, with
\* status REC: the first registers base.css, REC.svg and epub.css and adds
\* the epub.css link, the second returns nothing.
C29_Witness ==
    /\ css # <<>>
    /\ css[1].html0 = <<W3C_css_link>> /\ css[1].specStatus = <<Chars("REC")>>
    /\ Len(css[1].outs) = 2 /\ Len(css[1].outs[1]) = 3 /\ css[1].outs[2] = <<>>
    /\ Cardinality(LinksTo(css[1].html, "StyleSheets/TR/2016/epub.css")) = 1

\* C30: every ResourceRef the collector returns after all the lookups
\* succeeded has a media_type that is a non-empty string, also for a
\* resource the server sends without a content-type header, and so has
\* every manifest item made from it.
C30_CollectedMediaTypeIsSet ==
    /\ pc = "logo" =>
          \A i \in 1..Len(global.resources) :
             global.resources[i].media_type \notin {Null, Undefined, ""}
    /\ AfterManifest =>
          \A i \in 1..Len(global.package[1].item) :
             global.package[1].item[i].media_type \notin {Null, Undefined, ""}

====
